---- MODULE Spec2Model ----
(***************************************************************************)
(* Model of the Z80 recompiler front-end of jsSMS:                         *)
(*   - the IR node library `n` and the combinator library `o` of           *)
(*     src/compiler/opcodes.js,                                            *)
(*   - the unprefixed opcode table `opcodeTable` of the same file,         *)
(*   - the index-table factory `generateIndexTable`,                       *)
(*   - the decoder driver described in section 4.4 of the specification.   *)
(*                                                                         *)
(* JavaScript values are modelled as tagged records so that the dynamic    *)
(* tests of the code (`x == undefined`, `Array.isArray(x)`) are computed   *)
(* and never assumed:                                                      *)
(*    undefined        [jstype |-> "undefined"]                            *)
(*    number k         [jstype |-> "number", num |-> k]                    *)
(*    string "bc"      [jstype |-> "string", chars |-> <<"b", "c">>]       *)
(*    array            [jstype |-> "array", elements |-> <<...>>]          *)
(*    closure          [jstype |-> "function", fn, branch, env]            *)
(*    thrown exception [jstype |-> "throw", error, message]                *)
(* IR nodes are records with a "type" field, as in the source.  The names  *)
(* carried by Identifier and Register nodes and the operators of           *)
(* expressions are stored as TLA+ strings (ToStr of the JavaScript         *)
(* string).                                                                *)
(***************************************************************************)
EXTENDS Integers, Sequences, FiniteSets, TLC

VARIABLES
  mode,           \* "decode" | "combinator" | "startup" | "utils": the entry
                  \* point that runs
  rom,            \* decode: the bytes of the ROM from base on
  base,           \* decode: address of rom[1] (the start_pc of decode_block)
  pc,             \* decode: address of the next instruction to decode
  instructions,   \* decode: the records decoded so far
  terminated_by,  \* decode: "" while decoding, then the reason of the stop
  call,           \* combinator: the call o.<fn>(args) under test
  argv,           \* combinator: <<value, target, currentAddress>> for the emitter
  emitter,        \* combinator: what the call returned (closure or throw)
  ir,             \* combinator: what the emitter returned
  indexName,      \* startup: the argument of generateIndexTable
  indexTable,     \* startup: what generateIndexTable(indexName) produced
  utils           \* utils: the argument of rndInt, the draw, then the result

vars == <<mode, rom, base, pc, instructions, terminated_by,
          call, argv, emitter, ir, indexName, indexTable, utils>>

---------------------------------------------------------------------------
(* Operand kinds.                                                          *)
UINT8 == 1
INT8 == 2
UINT16 == 3

(* Flag masks and the flag lookup table live in the CPU module, which is   *)
(* outside the sources at hand; the values are those of the Z80 F register.*)
F_CARRY == 1
F_PARITY == 4
F_HALFCARRY == 16
F_ZERO == 64
F_SIGN == 128
SZP_TABLE_0 == 68

---------------------------------------------------------------------------
(* JavaScript values.                                                      *)
undefined == [jstype |-> "undefined"]
null == [jstype |-> "null"]
NaN == [jstype |-> "NaN"]
Num(k) == [jstype |-> "number", num |-> k]
Str(cs) == [jstype |-> "string", chars |-> cs]
Arr(es) == [jstype |-> "array", elements |-> es]
Closure(fn, branch, env) ==
  [jstype |-> "function", fn |-> fn, branch |-> branch, env |-> env]
Throw(error, message) ==
  [jstype |-> "throw", error |-> error, message |-> message]

IsJS(x, t) == "jstype" \in DOMAIN x /\ x.jstype = t
\* `x == undefined` (loose equality): true of undefined and of null.
EqUndefined(x) == IsJS(x, "undefined") \/ IsJS(x, "null")
IsArray(x) == IsJS(x, "array")
IsFunction(x) == IsJS(x, "function")
IsThrow(x) == IsJS(x, "throw")
\* `x == 'n'` for a string literal.
EqStr(x, cs) == IsJS(x, "string") /\ x.chars = cs
\* `x != 'a'`
NeStr(x, cs) == ~EqStr(x, cs)

RECURSIVE Join(_)
Join(cs) == IF cs = <<>> THEN "" ELSE Head(cs) \o Join(Tail(cs))

\* String conversion of a value used as a name.
ToStr(x) ==
  IF IsJS(x, "string") THEN Join(x.chars)
  ELSE IF IsJS(x, "number") THEN ToString(x.num)
  ELSE x.jstype

UpperChar(c) ==
  CASE c = "a" -> "A" [] c = "b" -> "B" [] c = "c" -> "C" [] c = "d" -> "D"
    [] c = "e" -> "E" [] c = "f" -> "F" [] c = "h" -> "H" [] c = "i" -> "I"
    [] c = "l" -> "L" [] c = "n" -> "N" [] c = "p" -> "P" [] c = "s" -> "S"
    [] c = "u" -> "U" [] c = "x" -> "X" [] c = "y" -> "Y"
    [] OTHER -> c

LowerChar(c) ==
  CASE c = "X" -> "x" [] c = "Y" -> "y" [] c = "I" -> "i" [] c = "H" -> "h"
    [] c = "L" -> "l"
    [] OTHER -> c

\* String.prototype.toUpperCase / toLowerCase
toUpperCase(s) == Str([i \in DOMAIN s.chars |-> UpperChar(s.chars[i])])
toLowerCase(s) == Str([i \in DOMAIN s.chars |-> LowerChar(s.chars[i])])

\* The characters of String(x), for the values that reach a concatenation.
CharsOf(x) ==
  IF IsJS(x, "string") THEN x.chars
  ELSE IF IsJS(x, "undefined")
  THEN <<"u", "n", "d", "e", "f", "i", "n", "e", "d">>
  ELSE <<"n", "u", "l", "l">>

\* a + b where at least one operand is a string
Concat(a, b) == Str(CharsOf(a) \o CharsOf(b))

\* a + k on a number and a numeric constant: undefined + k is NaN
Plus(a, k) == IF IsJS(a, "number") THEN Num(a.num + k) ELSE NaN

---------------------------------------------------------------------------
(* The IR node library `n`.                                                *)
IfStatement(test, consequent, alternate) ==
  [type |-> "IfStatement", test |-> test, consequent |-> consequent,
   alternate |-> IF EqUndefined(alternate) THEN null ELSE alternate]

BlockStatement(body) ==
  [type |-> "BlockStatement",
   body |-> IF EqUndefined(body) THEN Arr(<<>>) ELSE body]

ExpressionStatement(expression) ==
  [type |-> "ExpressionStatement", expression |-> expression]

Register(name) == [type |-> "Register", name |-> name]

Identifier(name) == [type |-> "Identifier", name |-> name]

Literal(value) == [type |-> "Literal", value |-> value]

CallExpression(callee, args) ==
  LET a1 == IF EqUndefined(args) THEN Arr(<<>>) ELSE args
      a2 == IF ~IsArray(a1) THEN Arr(<<a1>>) ELSE a1
  IN [type |-> "CallExpression", callee |-> Identifier(callee),
      arguments |-> a2]

AssignmentExpression(operator, left, right) ==
  [type |-> "AssignmentExpression", operator |-> operator,
   left |-> left, right |-> right]

BinaryExpression(operator, left, right) ==
  [type |-> "BinaryExpression", operator |-> operator,
   left |-> left, right |-> right]

\* The constructor generating `object.property`.
MemberExpression_dotted(object, property) ==
  [type |-> "MemberExpression", computed |-> FALSE,
   object |-> object, property |-> property]

MemberExpression(object, property) ==
  [type |-> "MemberExpression", computed |-> TRUE,
   object |-> object, property |-> property]

ReturnStatement(argument) ==
  [type |-> "ReturnStatement",
   argument |-> IF EqUndefined(argument) THEN null ELSE argument]

---------------------------------------------------------------------------
(* The combinator library `o`.  A combinator returns a closure; the        *)
(* closure records which branch of the combinator built it and the         *)
(* parameters it captured.  <Name>_fn is the body of the returned          *)
(* function, applied to (value, target, currentAddress).                   *)

\* 'get' + (r1 + r2).toUpperCase() and its siblings
PairName(prefix, r1, r2) == prefix \o ToStr(toUpperCase(Concat(r1, r2)))

READ_MEM8(value) == CallExpression("readMem", value)

READ_MEM16(value) == CallExpression("readMemWord", value)

NOOP == Closure("NOOP", 1, <<>>)

NOOP_fn(branch, env, value, target, currentAddress) == undefined

LD8(srcRegister, dstRegister1, dstRegister2) ==
  LET env == <<srcRegister, dstRegister1, dstRegister2>> IN
  IF EqUndefined(dstRegister1) /\ EqUndefined(dstRegister2)
  THEN Closure("LD8", 1, env)
  ELSE IF EqUndefined(dstRegister2)
  THEN Closure("LD8", 2, env)
  ELSE IF EqStr(dstRegister1, <<"n">>) /\ EqStr(dstRegister2, <<"n">>)
  THEN Closure("LD8", 3, env)
  ELSE Closure("LD8", 4, env)

\* The emitter of LD8 with the register assignment in the other direction.
LD8_fn_swapped(branch, env, value, target, currentAddress) ==
  LET srcRegister == env[1]
      dstRegister1 == env[2]
      dstRegister2 == env[3]
  IN CASE branch = 1 ->
            ExpressionStatement(AssignmentExpression("=",
              Register(ToStr(srcRegister)), Literal(value)))
       [] branch = 2 ->
            ExpressionStatement(AssignmentExpression("=",
              Register(ToStr(dstRegister1)), Register(ToStr(srcRegister))))
       [] branch = 3 ->
            ExpressionStatement(AssignmentExpression("=",
              Register(ToStr(srcRegister)), READ_MEM8(Literal(value))))
       [] OTHER ->
            ExpressionStatement(AssignmentExpression("=",
              Register(ToStr(srcRegister)),
              READ_MEM8(CallExpression(
                PairName("get", dstRegister1, dstRegister2), undefined))))

LD8_fn(branch, env, value, target, currentAddress) ==
  LET srcRegister == env[1]
      dstRegister1 == env[2]
      dstRegister2 == env[3]
  IN CASE branch = 1 ->
            ExpressionStatement(AssignmentExpression("=",
              Register(ToStr(srcRegister)), Literal(value)))
       [] branch = 2 ->
            ExpressionStatement(AssignmentExpression("=",
              Register(ToStr(srcRegister)), Register(ToStr(dstRegister1))))
       [] branch = 3 ->
            ExpressionStatement(AssignmentExpression("=",
              Register(ToStr(srcRegister)), READ_MEM8(Literal(value))))
       [] OTHER ->
            ExpressionStatement(AssignmentExpression("=",
              Register(ToStr(srcRegister)),
              READ_MEM8(CallExpression(
                PairName("get", dstRegister1, dstRegister2), undefined))))

\* LD16 accepting a destination pair of which only one half is 'n'.
LD16_lenient(srcRegister1, srcRegister2, dstRegister1, dstRegister2) ==
  LET env == <<srcRegister1, srcRegister2>> IN
  IF EqUndefined(dstRegister1) /\ EqUndefined(dstRegister2)
  THEN Closure("LD16", 1, env)
  ELSE IF EqStr(dstRegister1, <<"n">>) \/ EqStr(dstRegister2, <<"n">>)
  THEN Closure("LD16", 2, env)
  ELSE Throw("Error", "Wrong parameters number")

LD16(srcRegister1, srcRegister2, dstRegister1, dstRegister2) ==
  LET env == <<srcRegister1, srcRegister2>> IN
  IF EqUndefined(dstRegister1) /\ EqUndefined(dstRegister2)
  THEN Closure("LD16", 1, env)
  ELSE IF EqStr(dstRegister1, <<"n">>) /\ EqStr(dstRegister2, <<"n">>)
  THEN Closure("LD16", 2, env)
  ELSE Throw("Error", "Wrong parameters number")

\* The LD16 emitters without the upper-casing of the pair name.
LD16_fn_lowercase(branch, env, value, target, currentAddress) ==
  LET srcRegister1 == env[1]
      srcRegister2 == env[2]
  IN CASE branch = 1 ->
            ExpressionStatement(CallExpression(
              "set" \o ToStr(Concat(srcRegister1, srcRegister2)),
              Literal(value)))
       [] OTHER ->
            ExpressionStatement(CallExpression(
              "set" \o ToStr(Concat(srcRegister1, srcRegister2)),
              READ_MEM16(Literal(value))))

LD16_fn(branch, env, value, target, currentAddress) ==
  LET srcRegister1 == env[1]
      srcRegister2 == env[2]
  IN CASE branch = 1 ->
            ExpressionStatement(CallExpression(
              PairName("set", srcRegister1, srcRegister2), Literal(value)))
       [] OTHER ->
            ExpressionStatement(CallExpression(
              PairName("set", srcRegister1, srcRegister2),
              READ_MEM16(Literal(value))))

LD_WRITE_MEM(srcRegister1, srcRegister2, dstRegister1, dstRegister2) ==
  LET env == <<srcRegister1, srcRegister2, dstRegister1, dstRegister2>> IN
  IF EqUndefined(dstRegister1) /\ EqUndefined(dstRegister2)
  THEN Closure("LD_WRITE_MEM", 1, env)
  ELSE IF /\ EqStr(srcRegister1, <<"n">>) /\ EqStr(srcRegister2, <<"n">>)
          /\ EqUndefined(dstRegister2)
  THEN Closure("LD_WRITE_MEM", 2, env)
  ELSE IF EqStr(srcRegister1, <<"n">>) /\ EqStr(srcRegister2, <<"n">>)
  THEN Closure("LD_WRITE_MEM", 3, env)
  ELSE Closure("LD_WRITE_MEM", 4, env)

\* The emitter of LD_WRITE_MEM storing the high register at the lower
\* address.
LD_WRITE_MEM_fn_hifirst(branch, env, value, target, currentAddress) ==
  LET srcRegister1 == env[1]
      srcRegister2 == env[2]
      dstRegister1 == env[3]
      dstRegister2 == env[4]
  IN CASE branch = 1 ->
            ExpressionStatement(CallExpression("writeMem", Arr(<<
              CallExpression(PairName("get", srcRegister1, srcRegister2),
                             undefined),
              Literal(value)>>)))
       [] branch = 2 ->
            ExpressionStatement(CallExpression("writeMem", Arr(<<
              Literal(value), Register(ToStr(dstRegister1))>>)))
       [] branch = 3 ->
            Arr(<<
              ExpressionStatement(CallExpression("writeMem", Arr(<<
                Literal(value), Register(ToStr(dstRegister1))>>))),
              ExpressionStatement(CallExpression("writeMem", Arr(<<
                Literal(Plus(value, 1)), Register(ToStr(dstRegister2))>>)))
            >>)
       [] OTHER ->
            ExpressionStatement(CallExpression("writeMem", Arr(<<
              CallExpression(PairName("get", srcRegister1, srcRegister2),
                             undefined),
              Register(ToStr(dstRegister1))>>)))

LD_WRITE_MEM_fn(branch, env, value, target, currentAddress) ==
  LET srcRegister1 == env[1]
      srcRegister2 == env[2]
      dstRegister1 == env[3]
      dstRegister2 == env[4]
  IN CASE branch = 1 ->
            ExpressionStatement(CallExpression("writeMem", Arr(<<
              CallExpression(PairName("get", srcRegister1, srcRegister2),
                             undefined),
              Literal(value)>>)))
       [] branch = 2 ->
            ExpressionStatement(CallExpression("writeMem", Arr(<<
              Literal(value), Register(ToStr(dstRegister1))>>)))
       [] branch = 3 ->
            Arr(<<
              ExpressionStatement(CallExpression("writeMem", Arr(<<
                Literal(value), Register(ToStr(dstRegister2))>>))),
              ExpressionStatement(CallExpression("writeMem", Arr(<<
                Literal(Plus(value, 1)), Register(ToStr(dstRegister1))>>)))
            >>)
       [] OTHER ->
            ExpressionStatement(CallExpression("writeMem", Arr(<<
              CallExpression(PairName("get", srcRegister1, srcRegister2),
                             undefined),
              Register(ToStr(dstRegister1))>>)))

LD_SP == Closure("LD_SP", 1, <<>>)

LD_SP_fn(branch, env, value, target, currentAddress) ==
  ExpressionStatement(
    AssignmentExpression("=", Identifier("sp"), Literal(value)))

INC8(register) == Closure("INC8", 1, <<register>>)

INC8_fn(branch, env, value, target, currentAddress) ==
  ExpressionStatement(AssignmentExpression("=", Register(ToStr(env[1])),
    CallExpression("inc8", Register(ToStr(env[1])))))

INC16(register1, register2) == Closure("INC16", 1, <<register1, register2>>)

INC16_fn(branch, env, value, target, currentAddress) ==
  ExpressionStatement(
    CallExpression(PairName("inc", env[1], env[2]), undefined))

DEC8(register) == Closure("DEC8", 1, <<register>>)

DEC8_fn(branch, env, value, target, currentAddress) ==
  ExpressionStatement(AssignmentExpression("=", Register(ToStr(env[1])),
    CallExpression("dec8", Register(ToStr(env[1])))))

DEC16(register1, register2) == Closure("DEC16", 1, <<register1, register2>>)

DEC16_fn(branch, env, value, target, currentAddress) ==
  ExpressionStatement(
    CallExpression(PairName("dec", env[1], env[2]), undefined))

ADD16(register1, register2, register3, register4) ==
  Closure("ADD16", 1, <<register1, register2, register3, register4>>)

ADD16_fn(branch, env, value, target, currentAddress) ==
  ExpressionStatement(
    CallExpression(PairName("set", env[1], env[2]),
      CallExpression("add16", Arr(<<
        CallExpression(PairName("get", env[1], env[2]), undefined),
        CallExpression(PairName("get", env[3], env[4]), undefined)>>))))

EX_AF == Closure("EX_AF", 1, <<>>)

EX_AF_fn(branch, env, value, target, currentAddress) ==
  ExpressionStatement(CallExpression("exAF", undefined))

RLA == Closure("RLA", 1, <<>>)

RLA_fn(branch, env, value, target, currentAddress) ==
  ExpressionStatement(CallExpression("rla_a", undefined))

RRA == Closure("RRA", 1, <<>>)

RRA_fn(branch, env, value, target, currentAddress) ==
  ExpressionStatement(CallExpression("rra_a", undefined))

ADD(register1, register2) ==
  LET env == <<register1, register2>> IN
  IF EqUndefined(register1) /\ EqUndefined(register2)
  THEN Closure("ADD", 1, env)
  ELSE IF EqUndefined(register2)
  THEN Closure("ADD", 2, env)
  ELSE Closure("ADD", 3, env)

ADD_fn(branch, env, value, target, currentAddress) ==
  CASE branch = 1 ->
         ExpressionStatement(CallExpression("add_a", Literal(value)))
    [] branch = 2 ->
         ExpressionStatement(
           CallExpression("add_a", Register(ToStr(env[1]))))
    [] OTHER ->
         ExpressionStatement(CallExpression("add_a",
           READ_MEM8(CallExpression(PairName("get", env[1], env[2]),
                                    undefined))))

SUB(register) ==
  IF EqUndefined(register)
  THEN Closure("SUB", 1, <<register>>)
  ELSE Closure("SUB", 2, <<register>>)

SUB_fn(branch, env, value, target, currentAddress) ==
  CASE branch = 1 ->
         ExpressionStatement(CallExpression("sub_a", Literal(value)))
    [] OTHER ->
         ExpressionStatement(
           CallExpression("sub_a", Register(ToStr(env[1]))))

\* f = SZP_TABLE[a] | F_HALFCARRY
AND_flags ==
  ExpressionStatement(AssignmentExpression("=", Register("f"),
    BinaryExpression("|",
      MemberExpression(Identifier("SZP_TABLE"), Register("a")),
      Literal(Num(F_HALFCARRY)))))

\* AND treating the accumulator like any other register.
AND_nocollapse(register) ==
  IF EqUndefined(register)
  THEN Closure("AND", 1, <<register>>)
  ELSE Closure("AND", 2, <<register>>)

AND(register) ==
  IF EqUndefined(register)
  THEN Closure("AND", 1, <<register>>)
  ELSE IF NeStr(register, <<"a">>)
  THEN Closure("AND", 2, <<register>>)
  ELSE Closure("AND", 3, <<register>>)

AND_fn(branch, env, value, target, currentAddress) ==
  CASE branch = 1 ->
         Arr(<<ExpressionStatement(AssignmentExpression("&=",
                 Register("a"), Literal(value))),
               AND_flags>>)
    [] branch = 2 ->
         Arr(<<ExpressionStatement(AssignmentExpression("&=",
                 Register("a"), Register(ToStr(env[1])))),
               AND_flags>>)
    [] OTHER -> AND_flags

\* f = SZP_TABLE[a]
SZP_flags ==
  ExpressionStatement(AssignmentExpression("=", Register("f"),
    MemberExpression(Identifier("SZP_TABLE"), Register("a"))))

\* XOR without the special case of the accumulator.
XOR_nocollapse(register) ==
  IF EqUndefined(register)
  THEN Closure("XOR", 1, <<register>>)
  ELSE Closure("XOR", 2, <<register>>)

XOR(register) ==
  IF EqUndefined(register)
  THEN Closure("XOR", 1, <<register>>)
  ELSE IF NeStr(register, <<"a">>)
  THEN Closure("XOR", 2, <<register>>)
  ELSE Closure("XOR", 3, <<register>>)

XOR_fn(branch, env, value, target, currentAddress) ==
  CASE branch = 1 ->
         Arr(<<ExpressionStatement(AssignmentExpression("^=",
                 Register("a"), Literal(value))),
               SZP_flags>>)
    [] branch = 2 ->
         Arr(<<ExpressionStatement(AssignmentExpression("^=",
                 Register("a"), Register(ToStr(env[1])))),
               SZP_flags>>)
    [] OTHER ->
         Arr(<<ExpressionStatement(AssignmentExpression("=",
                 Register("a"), Literal(Num(0)))),
               ExpressionStatement(AssignmentExpression("=",
                 Register("f"), Literal(Num(SZP_TABLE_0))))>>)

OR(register) ==
  IF NeStr(register, <<"a">>)
  THEN Closure("OR", 1, <<register>>)
  ELSE Closure("OR", 2, <<register>>)

OR_fn(branch, env, value, target, currentAddress) ==
  CASE branch = 1 ->
         Arr(<<ExpressionStatement(AssignmentExpression("|=",
                 Register("a"), Register(ToStr(env[1])))),
               SZP_flags>>)
    [] OTHER -> SZP_flags

JR(test) == Closure("JR", 1, <<test>>)

JR_fn(branch, env, value, target, currentAddress) ==
  IfStatement(
    env[1],
    BlockStatement(Arr(<<
      ExpressionStatement(AssignmentExpression("=",
        Identifier("pc"), Literal(target))),
      ExpressionStatement(AssignmentExpression("-=",
        Identifier("tstates"), Literal(Num(5))))>>)),
    undefined)

DJNZ == Closure("DJNZ", 1, <<>>)

\* The emitter of DJNZ with the jump built from the raw operand.
DJNZ_fn_value(branch, env, value, target, currentAddress) ==
  LET jr == JR(BinaryExpression("!=", Register("b"), Literal(Num(0))))
  IN Arr(<<
       ExpressionStatement(AssignmentExpression("=", Register("b"),
         BinaryExpression("&",
           BinaryExpression("-", Register("b"), Literal(Num(1))),
           Literal(Num(255))))),
       JR_fn(jr.branch, jr.env, undefined, value, undefined)>>)

DJNZ_fn(branch, env, value, target, currentAddress) ==
  LET jr == JR(BinaryExpression("!=", Register("b"), Literal(Num(0))))
  IN Arr(<<
       ExpressionStatement(AssignmentExpression("=", Register("b"),
         BinaryExpression("&",
           BinaryExpression("-", Register("b"), Literal(Num(1))),
           Literal(Num(255))))),
       JR_fn(jr.branch, jr.env, undefined, target, undefined)>>)

\* (f & bitMask) operator 0
FlagTest(operator, bitMask) ==
  BinaryExpression(ToStr(operator),
    BinaryExpression("&", Register("f"), Literal(bitMask)),
    Literal(Num(0)))

\* RET with the test of its arguments inverted.
RET_inverted(operator, bitMask) ==
  IF ~(EqUndefined(operator) /\ EqUndefined(bitMask))
  THEN Closure("RET", 1, <<operator, bitMask>>)
  ELSE Closure("RET", 2, <<operator, bitMask>>)

RET(operator, bitMask) ==
  IF EqUndefined(operator) /\ EqUndefined(bitMask)
  THEN Closure("RET", 1, <<operator, bitMask>>)
  ELSE Closure("RET", 2, <<operator, bitMask>>)

\* The emitter of RET that leaves the stack pointer where it is.
RET_fn_nopop(branch, env, value, target, currentAddress) ==
  CASE branch = 1 ->
         Arr(<<
           ExpressionStatement(AssignmentExpression("=", Identifier("pc"),
             READ_MEM16(Identifier("sp")))),
           ReturnStatement(undefined)>>)
    [] OTHER ->
         ExpressionStatement(
           CallExpression("ret", FlagTest(env[1], env[2])))

RET_fn(branch, env, value, target, currentAddress) ==
  CASE branch = 1 ->
         Arr(<<
           ExpressionStatement(AssignmentExpression("=", Identifier("pc"),
             READ_MEM16(Identifier("sp")))),
           ExpressionStatement(AssignmentExpression("+=", Identifier("sp"),
             Literal(Num(2)))),
           ReturnStatement(undefined)>>)
    [] OTHER ->
         ExpressionStatement(
           CallExpression("ret", FlagTest(env[1], env[2])))

JP(operator, bitMask) ==
  IF EqUndefined(operator) /\ EqUndefined(bitMask)
  THEN Closure("JP", 1, <<operator, bitMask>>)
  ELSE Closure("JP", 2, <<operator, bitMask>>)

JP_fn(branch, env, value, target, currentAddress) ==
  CASE branch = 1 ->
         Arr(<<
           ExpressionStatement(AssignmentExpression("=", Identifier("pc"),
             Literal(target))),
           ReturnStatement(undefined)>>)
    [] OTHER ->
         IfStatement(
           FlagTest(env[1], env[2]),
           BlockStatement(Arr(<<
             ExpressionStatement(AssignmentExpression("=",
               Identifier("pc"), Literal(target))),
             ReturnStatement(undefined)>>)),
           undefined)

CALL(operator, bitMask) ==
  IF EqUndefined(operator) /\ EqUndefined(bitMask)
  THEN Closure("CALL", 1, <<operator, bitMask>>)
  ELSE Closure("CALL", 2, <<operator, bitMask>>)

\* The emitter of CALL pushing the address after a three-byte instruction.
CALL_fn_push3(branch, env, value, target, currentAddress) ==
  CASE branch = 1 ->
         Arr(<<
           ExpressionStatement(
             CallExpression("push1", Literal(Plus(currentAddress, 3)))),
           ExpressionStatement(AssignmentExpression("=", Identifier("pc"),
             Literal(target))),
           ReturnStatement(undefined)>>)
    [] OTHER ->
         IfStatement(
           FlagTest(env[1], env[2]),
           BlockStatement(Arr(<<
             ExpressionStatement(
               CallExpression("push1", Literal(Plus(currentAddress, 3)))),
             ExpressionStatement(AssignmentExpression("=",
               Identifier("pc"), Literal(target))),
             ExpressionStatement(AssignmentExpression("-=",
               Identifier("tstates"), Literal(Num(7)))),
             ReturnStatement(undefined)>>)),
           undefined)

CALL_fn(branch, env, value, target, currentAddress) ==
  CASE branch = 1 ->
         Arr(<<
           ExpressionStatement(
             CallExpression("push1", Literal(Plus(currentAddress, 2)))),
           ExpressionStatement(AssignmentExpression("=", Identifier("pc"),
             Literal(target))),
           ReturnStatement(undefined)>>)
    [] OTHER ->
         IfStatement(
           FlagTest(env[1], env[2]),
           BlockStatement(Arr(<<
             ExpressionStatement(
               CallExpression("push1", Literal(Plus(currentAddress, 2)))),
             ExpressionStatement(AssignmentExpression("=",
               Identifier("pc"), Literal(target))),
             ExpressionStatement(AssignmentExpression("-=",
               Identifier("tstates"), Literal(Num(7)))),
             ReturnStatement(undefined)>>)),
           undefined)

RST(targetAddress) == Closure("RST", 1, <<targetAddress>>)

RST_fn(branch, env, value, target, currentAddress) ==
  Arr(<<
    ExpressionStatement(CallExpression("push1", Literal(currentAddress))),
    ExpressionStatement(AssignmentExpression("=", Identifier("pc"),
      Literal(env[1]))),
    ReturnStatement(undefined)>>)

\* The names defined in `o`; a call of any other property of `o` raises
\* "TypeError: o.X is not a function".
o_keys ==
  {"NOOP", "LD8", "LD16", "LD_WRITE_MEM", "LD_SP", "INC8", "INC16", "DEC8",
   "DEC16", "ADD16", "EX_AF", "RLA", "RRA", "ADD", "SUB", "AND", "XOR", "OR",
   "JR", "DJNZ", "RET", "JP", "CALL", "RST", "READ_MEM8", "READ_MEM16"}

\* args[i], or undefined when fewer than i arguments were passed
Arg(args, i) == IF i <= Len(args) THEN args[i] ELSE undefined

\* The call o[fn](args...)
CallCombinator(fn, args) ==
  CASE fn \notin o_keys ->
         Throw("TypeError", "o." \o fn \o " is not a function")
    [] fn = "NOOP" -> NOOP
    [] fn = "LD8" -> LD8(Arg(args, 1), Arg(args, 2), Arg(args, 3))
    [] fn = "LD16" ->
         LD16(Arg(args, 1), Arg(args, 2), Arg(args, 3), Arg(args, 4))
    [] fn = "LD_WRITE_MEM" ->
         LD_WRITE_MEM(Arg(args, 1), Arg(args, 2), Arg(args, 3), Arg(args, 4))
    [] fn = "LD_SP" -> LD_SP
    [] fn = "INC8" -> INC8(Arg(args, 1))
    [] fn = "INC16" -> INC16(Arg(args, 1), Arg(args, 2))
    [] fn = "DEC8" -> DEC8(Arg(args, 1))
    [] fn = "DEC16" -> DEC16(Arg(args, 1), Arg(args, 2))
    [] fn = "ADD16" ->
         ADD16(Arg(args, 1), Arg(args, 2), Arg(args, 3), Arg(args, 4))
    [] fn = "EX_AF" -> EX_AF
    [] fn = "RLA" -> RLA
    [] fn = "RRA" -> RRA
    [] fn = "ADD" -> ADD(Arg(args, 1), Arg(args, 2))
    [] fn = "SUB" -> SUB(Arg(args, 1))
    [] fn = "AND" -> AND(Arg(args, 1))
    [] fn = "XOR" -> XOR(Arg(args, 1))
    [] fn = "OR" -> OR(Arg(args, 1))
    [] fn = "JR" -> JR(Arg(args, 1))
    [] fn = "DJNZ" -> DJNZ
    [] fn = "RET" -> RET(Arg(args, 1), Arg(args, 2))
    [] fn = "JP" -> JP(Arg(args, 1), Arg(args, 2))
    [] fn = "CALL" -> CALL(Arg(args, 1), Arg(args, 2))
    [] fn = "RST" -> RST(Arg(args, 1))
    [] fn = "READ_MEM8" -> READ_MEM8(Arg(args, 1))
    [] fn = "READ_MEM16" -> READ_MEM16(Arg(args, 1))

\* The call f(value, target, currentAddress) of a closure built by `o`
Invoke(f, value, target, currentAddress) ==
  LET b == f.branch
      e == f.env
  IN CASE f.fn = "NOOP" -> NOOP_fn(b, e, value, target, currentAddress)
       [] f.fn = "LD8" -> LD8_fn(b, e, value, target, currentAddress)
       [] f.fn = "LD16" -> LD16_fn(b, e, value, target, currentAddress)
       [] f.fn = "LD_WRITE_MEM" ->
            LD_WRITE_MEM_fn(b, e, value, target, currentAddress)
       [] f.fn = "LD_SP" -> LD_SP_fn(b, e, value, target, currentAddress)
       [] f.fn = "INC8" -> INC8_fn(b, e, value, target, currentAddress)
       [] f.fn = "INC16" -> INC16_fn(b, e, value, target, currentAddress)
       [] f.fn = "DEC8" -> DEC8_fn(b, e, value, target, currentAddress)
       [] f.fn = "DEC16" -> DEC16_fn(b, e, value, target, currentAddress)
       [] f.fn = "ADD16" -> ADD16_fn(b, e, value, target, currentAddress)
       [] f.fn = "EX_AF" -> EX_AF_fn(b, e, value, target, currentAddress)
       [] f.fn = "RLA" -> RLA_fn(b, e, value, target, currentAddress)
       [] f.fn = "RRA" -> RRA_fn(b, e, value, target, currentAddress)
       [] f.fn = "ADD" -> ADD_fn(b, e, value, target, currentAddress)
       [] f.fn = "SUB" -> SUB_fn(b, e, value, target, currentAddress)
       [] f.fn = "AND" -> AND_fn(b, e, value, target, currentAddress)
       [] f.fn = "XOR" -> XOR_fn(b, e, value, target, currentAddress)
       [] f.fn = "OR" -> OR_fn(b, e, value, target, currentAddress)
       [] f.fn = "JR" -> JR_fn(b, e, value, target, currentAddress)
       [] f.fn = "DJNZ" -> DJNZ_fn(b, e, value, target, currentAddress)
       [] f.fn = "RET" -> RET_fn(b, e, value, target, currentAddress)
       [] f.fn = "JP" -> JP_fn(b, e, value, target, currentAddress)
       [] f.fn = "CALL" -> CALL_fn(b, e, value, target, currentAddress)
       [] f.fn = "RST" -> RST_fn(b, e, value, target, currentAddress)

---------------------------------------------------------------------------
(* The unprefixed opcode table, in the order of the array literal; the     *)
(* entry of opcode byte i is opcodeTable[i + 1].  An entry has exactly the *)
(* properties the source gives it.                                         *)

opcodeTable_00_3F == <<
  (* 0x00 *) [name |-> "NOP", ast |-> NOOP],
  (* 0x01 *) [name |-> "LD BC,nn",
               ast |-> LD16(Str(<<"b">>), Str(<<"c">>), undefined, undefined), operand |-> UINT16],
  (* 0x02 *) [name |-> "LD (BC),A",
               ast |-> LD_WRITE_MEM(Str(<<"b">>), Str(<<"c">>), Str(<<"a">>), undefined)],
  (* 0x03 *) [name |-> "INC BC", ast |-> INC16(Str(<<"b">>), Str(<<"c">>))],
  (* 0x04 *) [name |-> "INC B", ast |-> INC8(Str(<<"b">>))],
  (* 0x05 *) [name |-> "DEC B", ast |-> DEC8(Str(<<"b">>))],
  (* 0x06 *) [name |-> "LD B,n",
               ast |-> LD8(Str(<<"b">>), undefined, undefined), operand |-> UINT8],
  (* 0x07 *) [name |-> "RLCA"],
  (* 0x08 *) [name |-> "EX AF AF'", ast |-> EX_AF],
  (* 0x09 *) [name |-> "ADD HL,BC",
               ast |-> ADD16(Str(<<"h">>), Str(<<"l">>), Str(<<"b">>), Str(<<"c">>))],
  (* 0x0A *) [name |-> "LD A,(BC)",
               ast |-> LD8(Str(<<"a">>), Str(<<"b">>), Str(<<"c">>))],
  (* 0x0B *) [name |-> "DEC BC", ast |-> DEC16(Str(<<"b">>), Str(<<"c">>))],
  (* 0x0C *) [name |-> "INC C", ast |-> INC8(Str(<<"c">>))],
  (* 0x0D *) [name |-> "DEC C", ast |-> DEC8(Str(<<"c">>))],
  (* 0x0E *) [name |-> "LD C,n",
               ast |-> LD8(Str(<<"c">>), undefined, undefined), operand |-> UINT8],
  (* 0x0F *) [name |-> "RRCA"],
  (* 0x10 *) [name |-> "DJNZ (PC+e)", ast |-> DJNZ, operand |-> INT8],
  (* 0x11 *) [name |-> "LD DE,nn",
               ast |-> LD16(Str(<<"d">>), Str(<<"e">>), undefined, undefined), operand |-> UINT16],
  (* 0x12 *) [name |-> "LD (DE),A",
               ast |-> LD_WRITE_MEM(Str(<<"d">>), Str(<<"e">>), Str(<<"a">>), undefined)],
  (* 0x13 *) [name |-> "INC DE", ast |-> INC16(Str(<<"d">>), Str(<<"e">>))],
  (* 0x14 *) [name |-> "INC D", ast |-> INC8(Str(<<"d">>))],
  (* 0x15 *) [name |-> "DEC D", ast |-> DEC8(Str(<<"d">>))],
  (* 0x16 *) [name |-> "LD D,n",
               ast |-> LD8(Str(<<"d">>), undefined, undefined), operand |-> UINT8],
  (* 0x17 *) [name |-> "RLA", ast |-> RLA],
  (* 0x18 *) [name |-> "JR (PC+e)", operand |-> INT8],
  (* 0x19 *) [name |-> "ADD HL,DE",
               ast |-> ADD16(Str(<<"h">>), Str(<<"l">>), Str(<<"d">>), Str(<<"e">>))],
  (* 0x1A *) [name |-> "LD A,(DE)",
               ast |-> LD8(Str(<<"a">>), Str(<<"d">>), Str(<<"e">>))],
  (* 0x1B *) [ame |-> "DEC DE", ast |-> DEC16(Str(<<"d">>), Str(<<"e">>))],
  (* 0x1C *) [name |-> "INC E", ast |-> INC8(Str(<<"e">>))],
  (* 0x1D *) [name |-> "DEC E", ast |-> DEC8(Str(<<"e">>))],
  (* 0x1E *) [name |-> "LD E,n",
               ast |-> LD8(Str(<<"e">>), undefined, undefined), operand |-> UINT8],
  (* 0x1F *) [name |-> "RRA", ast |-> RRA],
  (* 0x20 *) [name |-> "JR NZ,(PC+e)", operand |-> INT8],
  (* 0x21 *) [name |-> "LD HL,nn",
               ast |-> LD16(Str(<<"h">>), Str(<<"l">>), undefined, undefined), operand |-> UINT16],
  (* 0x22 *) [name |-> "LD (nn),HL",
               ast |-> LD_WRITE_MEM(Str(<<"n">>), Str(<<"n">>), Str(<<"h">>), Str(<<"l">>)), operand |-> UINT16],
  (* 0x23 *) [name |-> "INC HL", ast |-> INC16(Str(<<"h">>), Str(<<"l">>))],
  (* 0x24 *) [name |-> "INC H"],
  (* 0x25 *) [name |-> "DEC H"],
  (* 0x26 *) [name |-> "LD H,n",
               ast |-> LD8(Str(<<"h">>), undefined, undefined), operand |-> UINT8],
  (* 0x27 *) [name |-> "DAA"],
  (* 0x28 *) [name |-> "JR Z,(PC+e)", operand |-> INT8],
  (* 0x29 *) [name |-> "ADD HL,HL",
               ast |-> ADD16(Str(<<"h">>), Str(<<"l">>), Str(<<"h">>), Str(<<"l">>))],
  (* 0x2A *) [name |-> "LD HL,(nn)",
               ast |-> LD16(Str(<<"h">>), Str(<<"l">>), Str(<<"n">>), Str(<<"n">>)), operand |-> UINT16],
  (* 0x2B *) [name |-> "DEC HL"],
  (* 0x2C *) [name |-> "INC L"],
  (* 0x2D *) [name |-> "DEC L"],
  (* 0x2E *) [name |-> "LD L,n",
               ast |-> LD8(Str(<<"l">>), undefined, undefined), operand |-> UINT8],
  (* 0x2F *) [name |-> "CPL"],
  (* 0x30 *) [name |-> "JR NC,(PC+e)", operand |-> INT8],
  (* 0x31 *) [name |-> "LD SP,nn", ast |-> LD_SP, operand |-> UINT16],
  (* 0x32 *) [name |-> "LD (nn),A",
               ast |-> LD_WRITE_MEM(Str(<<"n">>), Str(<<"n">>), Str(<<"a">>), undefined), operand |-> UINT16],
  (* 0x33 *) [name |-> "INC SP"],
  (* 0x34 *) [name |-> "INC (HL)"],
  (* 0x35 *) [name |-> "DEC (HL)"],
  (* 0x36 *) [name |-> "LD (HL),n",
               ast |-> LD_WRITE_MEM(Str(<<"h">>), Str(<<"l">>), undefined, undefined), operand |-> UINT8],
  (* 0x37 *) [name |-> "SCF"],
  (* 0x38 *) [name |-> "JR C,(PC+e)", operand |-> INT8],
  (* 0x39 *) [name |-> "ADD HL,SP"],
  (* 0x3A *) [name |-> "LD A,(nn)",
               ast |-> LD8(Str(<<"a">>), Str(<<"n">>), Str(<<"n">>)), operand |-> UINT16],
  (* 0x3B *) [name |-> "DEC SP"],
  (* 0x3C *) [name |-> "INC A", ast |-> INC8(Str(<<"a">>))],
  (* 0x3D *) [name |-> "DEC A", ast |-> DEC8(Str(<<"a">>))],
  (* 0x3E *) [name |-> "LD A,n",
               ast |-> LD8(Str(<<"a">>), undefined, undefined), operand |-> UINT8],
  (* 0x3F *) [name |-> "CCF"]
>>

opcodeTable_40_7F == <<
  (* 0x40 *) [name |-> "LD B,B", ast |-> NOOP, operand |-> UINT8],
  (* 0x41 *) [name |-> "LD B,C",
               ast |-> LD8(Str(<<"b">>), Str(<<"c">>), undefined)],
  (* 0x42 *) [name |-> "LD B,D",
               ast |-> LD8(Str(<<"b">>), Str(<<"d">>), undefined)],
  (* 0x43 *) [name |-> "LD B,E",
               ast |-> LD8(Str(<<"b">>), Str(<<"e">>), undefined)],
  (* 0x44 *) [name |-> "LD B,H",
               ast |-> LD8(Str(<<"b">>), Str(<<"h">>), undefined)],
  (* 0x45 *) [name |-> "LD B,L",
               ast |-> LD8(Str(<<"b">>), Str(<<"l">>), undefined)],
  (* 0x46 *) [name |-> "LD B,(HL)"],
  (* 0x47 *) [name |-> "LD B,A",
               ast |-> LD8(Str(<<"b">>), Str(<<"a">>), undefined)],
  (* 0x48 *) [name |-> "LD C,B",
               ast |-> LD8(Str(<<"c">>), Str(<<"b">>), undefined)],
  (* 0x49 *) [name |-> "LD C,C", ast |-> NOOP],
  (* 0x4A *) [name |-> "LD C,D",
               ast |-> LD8(Str(<<"c">>), Str(<<"d">>), undefined)],
  (* 0x4B *) [name |-> "LD C,E",
               ast |-> LD8(Str(<<"c">>), Str(<<"e">>), undefined)],
  (* 0x4C *) [name |-> "LD C,H",
               ast |-> LD8(Str(<<"c">>), Str(<<"h">>), undefined)],
  (* 0x4D *) [name |-> "LD C,L",
               ast |-> LD8(Str(<<"c">>), Str(<<"l">>), undefined)],
  (* 0x4E *) [name |-> "LD C,(HL)"],
  (* 0x4F *) [name |-> "LD C,A",
               ast |-> LD8(Str(<<"c">>), Str(<<"a">>), undefined)],
  (* 0x50 *) [name |-> "LD D,B",
               ast |-> LD8(Str(<<"d">>), Str(<<"b">>), undefined)],
  (* 0x51 *) [name |-> "LD D,C",
               ast |-> LD8(Str(<<"d">>), Str(<<"c">>), undefined)],
  (* 0x52 *) [name |-> "LD D,D", ast |-> NOOP],
  (* 0x53 *) [name |-> "LD D,E",
               ast |-> LD8(Str(<<"d">>), Str(<<"e">>), undefined)],
  (* 0x54 *) [name |-> "LD D,H",
               ast |-> LD8(Str(<<"d">>), Str(<<"h">>), undefined)],
  (* 0x55 *) [name |-> "LD D,L",
               ast |-> LD8(Str(<<"d">>), Str(<<"l">>), undefined)],
  (* 0x56 *) [name |-> "LD D,(HL)"],
  (* 0x57 *) [name |-> "LD D,A",
               ast |-> LD8(Str(<<"d">>), Str(<<"a">>), undefined)],
  (* 0x58 *) [name |-> "LD E,B",
               ast |-> LD8(Str(<<"e">>), Str(<<"b">>), undefined)],
  (* 0x59 *) [name |-> "LD E,C",
               ast |-> LD8(Str(<<"e">>), Str(<<"c">>), undefined)],
  (* 0x5A *) [name |-> "LD E,D",
               ast |-> LD8(Str(<<"e">>), Str(<<"d">>), undefined)],
  (* 0x5B *) [name |-> "LD E,E", ast |-> NOOP],
  (* 0x5C *) [name |-> "LD E,H",
               ast |-> LD8(Str(<<"e">>), Str(<<"h">>), undefined)],
  (* 0x5D *) [name |-> "LD E,L",
               ast |-> LD8(Str(<<"e">>), Str(<<"l">>), undefined)],
  (* 0x5E *) [name |-> "LD E,(HL)"],
  (* 0x5F *) [name |-> "LD E,A",
               ast |-> LD8(Str(<<"e">>), Str(<<"a">>), undefined)],
  (* 0x60 *) [name |-> "LD H,B",
               ast |-> LD8(Str(<<"h">>), Str(<<"b">>), undefined)],
  (* 0x61 *) [name |-> "LD H,C",
               ast |-> LD8(Str(<<"h">>), Str(<<"c">>), undefined)],
  (* 0x62 *) [name |-> "LD H,D",
               ast |-> LD8(Str(<<"h">>), Str(<<"d">>), undefined)],
  (* 0x63 *) [name |-> "LD H,E",
               ast |-> LD8(Str(<<"h">>), Str(<<"e">>), undefined)],
  (* 0x64 *) [name |-> "LD H,H", ast |-> NOOP],
  (* 0x65 *) [name |-> "LD H,L",
               ast |-> LD8(Str(<<"h">>), Str(<<"l">>), undefined)],
  (* 0x66 *) [name |-> "LD H,(HL)"],
  (* 0x67 *) [name |-> "LD H,A",
               ast |-> LD8(Str(<<"h">>), Str(<<"a">>), undefined)],
  (* 0x68 *) [name |-> "LD L,B",
               ast |-> LD8(Str(<<"l">>), Str(<<"b">>), undefined)],
  (* 0x69 *) [name |-> "LD L,C",
               ast |-> LD8(Str(<<"l">>), Str(<<"c">>), undefined)],
  (* 0x6A *) [name |-> "LD L,D",
               ast |-> LD8(Str(<<"l">>), Str(<<"d">>), undefined)],
  (* 0x6B *) [name |-> "LD L,E",
               ast |-> LD8(Str(<<"l">>), Str(<<"e">>), undefined)],
  (* 0x6C *) [name |-> "LD L,H",
               ast |-> LD8(Str(<<"l">>), Str(<<"h">>), undefined)],
  (* 0x6D *) [name |-> "LD L,L", ast |-> NOOP],
  (* 0x6E *) [name |-> "LD L,(HL)"],
  (* 0x6F *) [name |-> "LD L,A",
               ast |-> LD8(Str(<<"l">>), Str(<<"a">>), undefined)],
  (* 0x70 *) [name |-> "LD (HL),B"],
  (* 0x71 *) [name |-> "LD (HL),C"],
  (* 0x72 *) [name |-> "LD (HL),D"],
  (* 0x73 *) [name |-> "LD (HL),E"],
  (* 0x74 *) [name |-> "LD (HL),H"],
  (* 0x75 *) [name |-> "LD (HL),L"],
  (* 0x76 *) [name |-> "HALT"],
  (* 0x77 *) [name |-> "LD (HL),A"],
  (* 0x78 *) [name |-> "LD A,B",
               ast |-> LD8(Str(<<"a">>), Str(<<"b">>), undefined)],
  (* 0x79 *) [name |-> "LD A,C",
               ast |-> LD8(Str(<<"a">>), Str(<<"c">>), undefined)],
  (* 0x7A *) [name |-> "LD A,D",
               ast |-> LD8(Str(<<"a">>), Str(<<"d">>), undefined)],
  (* 0x7B *) [name |-> "LD A,E",
               ast |-> LD8(Str(<<"a">>), Str(<<"e">>), undefined)],
  (* 0x7C *) [name |-> "LD A,H",
               ast |-> LD8(Str(<<"a">>), Str(<<"h">>), undefined)],
  (* 0x7D *) [name |-> "LD A,L",
               ast |-> LD8(Str(<<"a">>), Str(<<"l">>), undefined)],
  (* 0x7E *) [name |-> "LD A,(HL)",
               ast |-> LD8(Str(<<"a">>), Str(<<"h">>), Str(<<"l">>))],
  (* 0x7F *) [name |-> "LD A,A", ast |-> NOOP]
>>

opcodeTable_80_BF == <<
  (* 0x80 *) [name |-> "ADD A,B", ast |-> ADD(Str(<<"b">>), undefined)],
  (* 0x81 *) [name |-> "ADD A,C", ast |-> ADD(Str(<<"c">>), undefined)],
  (* 0x82 *) [name |-> "ADD A,D", ast |-> ADD(Str(<<"d">>), undefined)],
  (* 0x83 *) [name |-> "ADD A,E", ast |-> ADD(Str(<<"e">>), undefined)],
  (* 0x84 *) [name |-> "ADD A,H", ast |-> ADD(Str(<<"h">>), undefined)],
  (* 0x85 *) [name |-> "ADD A,L", ast |-> ADD(Str(<<"l">>), undefined)],
  (* 0x86 *) [name |-> "ADD A,(HL)"],
  (* 0x87 *) [name |-> "ADD A,A", ast |-> ADD(Str(<<"a">>), undefined)],
  (* 0x88 *) [name |-> "ADC A,B"],
  (* 0x89 *) [name |-> "ADC A,C"],
  (* 0x8A *) [name |-> "ADC A,D"],
  (* 0x8B *) [name |-> "ADC A,E"],
  (* 0x8C *) [name |-> "ADC A,H"],
  (* 0x8D *) [name |-> "ADC A,L"],
  (* 0x8E *) [name |-> "ADC A,(HL)"],
  (* 0x8F *) [name |-> "ADC A,A"],
  (* 0x90 *) [name |-> "SUB A,B", ast |-> SUB(Str(<<"b">>))],
  (* 0x91 *) [name |-> "SUB A,C", ast |-> SUB(Str(<<"c">>))],
  (* 0x92 *) [name |-> "SUB A,D", ast |-> SUB(Str(<<"d">>))],
  (* 0x93 *) [name |-> "SUB A,E", ast |-> SUB(Str(<<"e">>))],
  (* 0x94 *) [name |-> "SUB A,H", ast |-> SUB(Str(<<"h">>))],
  (* 0x95 *) [name |-> "SUB A,L", ast |-> SUB(Str(<<"l">>))],
  (* 0x96 *) [name |-> "SUB A,(HL)"],
  (* 0x97 *) [name |-> "SUB A,A", ast |-> SUB(Str(<<"a">>))],
  (* 0x98 *) [name |-> "SBC A,B"],
  (* 0x99 *) [name |-> "SBC A,C"],
  (* 0x9A *) [name |-> "SBC A,D"],
  (* 0x9B *) [name |-> "SBC A,E"],
  (* 0x9C *) [name |-> "SBC A,H"],
  (* 0x9D *) [name |-> "SBC A,L"],
  (* 0x9E *) [name |-> "SBC A,(HL)"],
  (* 0x9F *) [name |-> "SBC A,A"],
  (* 0xA0 *) [name |-> "AND A,B", ast |-> AND(Str(<<"b">>))],
  (* 0xA1 *) [name |-> "AND A,C", ast |-> AND(Str(<<"c">>))],
  (* 0xA2 *) [name |-> "AND A,D", ast |-> AND(Str(<<"d">>))],
  (* 0xA3 *) [name |-> "AND A,E", ast |-> AND(Str(<<"e">>))],
  (* 0xA4 *) [name |-> "AND A,H", ast |-> AND(Str(<<"h">>))],
  (* 0xA5 *) [name |-> "AND A,L", ast |-> AND(Str(<<"l">>))],
  (* 0xA6 *) [name |-> "AND A,(HL)"],
  (* 0xA7 *) [name |-> "AND A,A", ast |-> AND(Str(<<"a">>))],
  (* 0xA8 *) [name |-> "XOR A,B", ast |-> XOR(Str(<<"b">>))],
  (* 0xA9 *) [name |-> "XOR A,C", ast |-> XOR(Str(<<"c">>))],
  (* 0xAA *) [name |-> "XOR A,D", ast |-> XOR(Str(<<"d">>))],
  (* 0xAB *) [name |-> "XOR A,E", ast |-> XOR(Str(<<"e">>))],
  (* 0xAC *) [name |-> "XOR A,H", ast |-> XOR(Str(<<"h">>))],
  (* 0xAD *) [name |-> "XOR A,L", ast |-> XOR(Str(<<"l">>))],
  (* 0xAE *) [name |-> "XOR A,(HL)"],
  (* 0xAF *) [name |-> "XOR A,A", ast |-> XOR(Str(<<"a">>))],
  (* 0xB0 *) [name |-> "OR A,B", ast |-> OR(Str(<<"b">>))],
  (* 0xB1 *) [name |-> "OR A,C", ast |-> OR(Str(<<"c">>))],
  (* 0xB2 *) [name |-> "OR A,D", ast |-> OR(Str(<<"d">>))],
  (* 0xB3 *) [name |-> "OR A,E", ast |-> OR(Str(<<"e">>))],
  (* 0xB4 *) [name |-> "OR A,H", ast |-> OR(Str(<<"h">>))],
  (* 0xB5 *) [name |-> "OR A,L", ast |-> OR(Str(<<"l">>))],
  (* 0xB6 *) [name |-> "OR A,(HL)"],
  (* 0xB7 *) [name |-> "OR A,A", ast |-> OR(Str(<<"a">>))],
  (* 0xB8 *) [name |-> "CP A,B"],
  (* 0xB9 *) [name |-> "CP A,C"],
  (* 0xBA *) [name |-> "CP A,D"],
  (* 0xBB *) [name |-> "CP A,E"],
  (* 0xBC *) [name |-> "CP A,H"],
  (* 0xBD *) [name |-> "CP A,L"],
  (* 0xBE *) [name |-> "CP A,(HL)"],
  (* 0xBF *) [name |-> "CP A,A"]
>>

opcodeTable_C0_FF == <<
  (* 0xC0 *) [name |-> "RET NZ", ast |-> RET(Str(<<"=", "=">>), Num(F_ZERO))],
  (* 0xC1 *) [name |-> "POP BC"],
  (* 0xC2 *) [name |-> "JP NZ,(nn)",
               ast |-> JP(Str(<<"=", "=">>), Num(F_ZERO))],
  (* 0xC3 *) [name |-> "JP (nn)", ast |-> JP(undefined, undefined)],
  (* 0xC4 *) [name |-> "CALL NZ (nn)",
               ast |-> CALL(Str(<<"=", "=">>), Num(F_ZERO))],
  (* 0xC5 *) [name |-> "PUSH BC"],
  (* 0xC6 *) [name |-> "ADD A,n"],
  (* 0xC7 *) [name |-> "RST 00H", ast |-> RST(Num(0))],
  (* 0xC8 *) [name |-> "RET Z", ast |-> RET(Str(<<"!", "=">>), Num(F_ZERO))],
  (* 0xC9 *) [name |-> "RET", ast |-> RET(undefined, undefined)],
  (* 0xCA *) [name |-> "JP Z,(nn)",
               ast |-> JP(Str(<<"!", "=">>), Num(F_ZERO))],
  (* 0xCB *) [name |-> ""],
  (* 0xCC *) [name |-> "CALL Z (nn)",
               ast |-> CALL(Str(<<"!", "=">>), Num(F_ZERO))],
  (* 0xCD *) [name |-> "CALL (nn)", ast |-> CALL(undefined, undefined)],
  (* 0xCE *) [name |-> "ADC A,n"],
  (* 0xCF *) [name |-> "RST 08H", ast |-> RST(Num(8))],
  (* 0xD0 *) [name |-> "RET NC", ast |-> RET(Str(<<"=", "=">>), Num(F_CARRY))],
  (* 0xD1 *) [name |-> "POP DE"],
  (* 0xD2 *) [name |-> "JP NC,(nn)",
               ast |-> JP(Str(<<"=", "=">>), Num(F_CARRY))],
  (* 0xD3 *) [name |-> "OUT (n),A"],
  (* 0xD4 *) [name |-> "CALL NC (nn)",
               ast |-> CALL(Str(<<"=", "=">>), Num(F_CARRY))],
  (* 0xD5 *) [name |-> "PUSH DE"],
  (* 0xD6 *) [name |-> "SUB n", ast |-> SUB(undefined)],
  (* 0xD7 *) [name |-> "RST 10H", ast |-> RST(Num(16))],
  (* 0xD8 *) [name |-> "RET C", ast |-> RET(Str(<<"!", "=">>), Num(F_CARRY))],
  (* 0xD9 *) [name |-> "EXX"],
  (* 0xDA *) [name |-> "JP C,(nn)",
               ast |-> JP(Str(<<"!", "=">>), Num(F_CARRY))],
  (* 0xDB *) [name |-> "IN A,(n)"],
  (* 0xDC *) [name |-> "CALL C (nn)",
               ast |-> CALL(Str(<<"!", "=">>), Num(F_CARRY))],
  (* 0xDD *) [name |-> ""],
  (* 0xDE *) [name |-> "SBC A,n"],
  (* 0xDF *) [name |-> "RST 18H", ast |-> RST(Num(24))],
  (* 0xE0 *) [name |-> "RET PO",
               ast |-> RET(Str(<<"=", "=">>), Num(F_PARITY))],
  (* 0xE1 *) [name |-> "POP HL"],
  (* 0xE2 *) [name |-> "JP PO,(nn)",
               ast |-> JP(Str(<<"=", "=">>), Num(F_PARITY))],
  (* 0xE3 *) [name |-> "EX (SP),HL"],
  (* 0xE4 *) [name |-> "CALL PO (nn)",
               ast |-> CALL(Str(<<"=", "=">>), Num(F_PARITY))],
  (* 0xE5 *) [name |-> "PUSH HL"],
  (* 0xE6 *) [name |-> "AND (n)", ast |-> AND(undefined)],
  (* 0xE7 *) [name |-> "RST 20H", ast |-> RST(Num(32))],
  (* 0xE8 *) [name |-> "RET PE",
               ast |-> RET(Str(<<"!", "=">>), Num(F_PARITY))],
  (* 0xE9 *) [name |-> "JP (HL)"],
  (* 0xEA *) [name |-> "JP PE,(nn)",
               ast |-> JP(Str(<<"!", "=">>), Num(F_PARITY))],
  (* 0xEB *) [name |-> "EX DE,HL"],
  (* 0xEC *) [name |-> "CALL PE (nn)",
               ast |-> CALL(Str(<<"!", "=">>), Num(F_PARITY))],
  (* 0xED *) [name |-> ""],
  (* 0xEE *) [name |-> "XOR n", ast |-> XOR(undefined)],
  (* 0xEF *) [name |-> "RST 28H", ast |-> RST(Num(40))],
  (* 0xF0 *) [name |-> "RET P", ast |-> RET(Str(<<"=", "=">>), Num(F_SIGN))],
  (* 0xF1 *) [name |-> "POP AF"],
  (* 0xF2 *) [name |-> "JP P,(nn)",
               ast |-> JP(Str(<<"=", "=">>), Num(F_SIGN))],
  (* 0xF3 *) [name |-> "DI"],
  (* 0xF4 *) [name |-> "CALL P (nn)",
               ast |-> CALL(Str(<<"=", "=">>), Num(F_SIGN))],
  (* 0xF5 *) [name |-> "PUSH AF"],
  (* 0xF6 *) [name |-> "OR n"],
  (* 0xF7 *) [name |-> "RST 30H", ast |-> RST(Num(48))],
  (* 0xF8 *) [name |-> "RET M", ast |-> RET(Str(<<"!", "=">>), Num(F_SIGN))],
  (* 0xF9 *) [name |-> "LD SP,HL"],
  (* 0xFA *) [name |-> "JP M,(nn)",
               ast |-> JP(Str(<<"!", "=">>), Num(F_SIGN))],
  (* 0xFB *) [name |-> "EI"],
  (* 0xFC *) [name |-> "CALL M (nn)",
               ast |-> CALL(Str(<<"!", "=">>), Num(F_SIGN))],
  (* 0xFD *) [name |-> ""],
  (* 0xFE *) [name |-> "CP n"],
  (* 0xFF *) [name |-> "RST 38H", ast |-> RST(Num(56))]
>>

\* The table with the entry of 0x00 written twice: every later entry of the
\* first block sits one index too high and the entry of 0x3F is lost.
opcodeTable_shifted ==
  <<opcodeTable_00_3F[1]>> \o SubSeq(opcodeTable_00_3F, 1, 63)
    \o opcodeTable_40_7F \o opcodeTable_80_BF \o opcodeTable_C0_FF

opcodeTable ==
  opcodeTable_00_3F \o opcodeTable_40_7F \o opcodeTable_80_BF
    \o opcodeTable_C0_FF

---------------------------------------------------------------------------
(* generateIndexTable(index): the object literal is evaluated property by  *)
(* property, in source order; IndexSlots lists, for each property, its     *)
(* key, its name, the combinator call that computes `ast`, and the operand *)
(* tag when the source gives one.  Slot 0xCB is a reference to another     *)
(* table and calls no combinator.                                          *)

Slot(key, name, fn, args) == [key |-> key, name |-> name, fn |-> fn, args |-> args]

SlotOp(key, name, fn, args, operand) ==
  [key |-> key, name |-> name, fn |-> fn, args |-> args, operand |-> operand]

IndexSlots(index) ==
  LET ix == ToStr(index)
      i == Str(<<"i">>)
      register2 == Str(SubSeq(index.chars, 2, 2))
      register2LC == toLowerCase(Str(SubSeq(index.chars, 2, 2)))
      iH == Concat(Concat(i, register2LC), Str(<<"H">>))
      iL == Concat(Concat(i, register2LC), Str(<<"L">>))
      n == Str(<<"n">>)
  IN <<
    Slot(9, "ADD " \o ix \o ",BC", "ADD16",
         <<i, register2, Str(<<"b">>), Str(<<"c">>)>>),
    Slot(25, "ADD " \o ix \o ",DE", "ADD16",
         <<i, register2, Str(<<"d">>), Str(<<"e">>)>>),
    Slot(33, "LD " \o ix \o ",nn", "LD16", <<i, register2>>),
    Slot(34, "LD (nn)," \o ix, "LD_NN", <<iH, iL>>),
    Slot(35, "INC " \o ix, "INC16", <<i, register2>>),
    SlotOp(42, "LD " \o ix \o ",(nn)", "LD16", <<iH, iL, n, n>>, UINT16),
    Slot(43, "DEC " \o ix, "DEC16", <<i, register2>>),
    Slot(52, "INC (" \o ix \o "+d)", "INC_X", <<i, register2>>),
    Slot(53, "DEC (" \o ix \o "+d)", "DEC_X", <<i, register2>>),
    Slot(54, "LD (" \o ix \o "+d),n", "LD_X", <<i, register2>>),
    Slot(70, "LD B,(" \o ix \o "+d)", "LD8_D", <<Str(<<"b">>), i, register2>>),
    Slot(78, "LD C,(" \o ix \o "+d)", "LD8_D", <<Str(<<"c">>), i, register2>>),
    Slot(86, "LD D,(" \o ix \o "+d)", "LD8_D", <<Str(<<"d">>), i, register2>>),
    Slot(94, "LD E,(" \o ix \o "+d)", "LD8_D", <<Str(<<"e">>), i, register2>>),
    Slot(102, "LD H,(" \o ix \o "+d)", "LD8_D", <<Str(<<"h">>), i, register2>>),
    Slot(110, "LD L,(" \o ix \o "+d)", "LD8_D", <<Str(<<"l">>), i, register2>>),
    Slot(112, "LD (" \o ix \o "+d),B", "LD_X", <<Str(<<"b">>), i, register2>>),
    Slot(113, "LD (" \o ix \o "+d),C", "LD_X", <<Str(<<"c">>), i, register2>>),
    Slot(114, "LD (" \o ix \o "+d),D", "LD_X", <<Str(<<"d">>), i, register2>>),
    Slot(115, "LD (" \o ix \o "+d),E", "LD_X", <<Str(<<"e">>), i, register2>>),
    Slot(116, "LD (" \o ix \o "+d),H", "LD_X", <<Str(<<"h">>), i, register2>>),
    Slot(117, "LD (" \o ix \o "+d),L", "LD_X", <<Str(<<"l">>), i, register2>>),
    Slot(118, "LD (" \o ix \o "+d),B", "LD_X", <<Str(<<"b">>), i, register2>>),
    Slot(119, "LD (" \o ix \o "+d),A", "LD_X", <<Str(<<"a">>), i, register2>>),
    Slot(126, "LD A,(" \o ix \o "+d)", "LD8_D", <<Str(<<"a">>), i, register2>>),
    Slot(134, "ADD A,(" \o ix \o "+d)", "ADD_X", <<i, register2>>),
    [key |-> 203,
     table |-> IF EqStr(index, <<"I", "X">>) THEN "opcodeTableDDCB"
                                              ELSE "opcodeTableFDCB"],
    Slot(182, "OR A,(" \o ix \o "+d)", "OR_X", <<i, register2>>),
    Slot(190, "CP (" \o ix \o "+d)", "CP_X", <<i, register2>>),
    Slot(225, "POP " \o ix, "POP", <<i, register2>>),
    Slot(227, "EX SP,(" \o ix \o ")", "EX_SP_X", <<i, register2>>),
    Slot(229, "PUSH " \o ix, "PUSH", <<iH, iL>>),
    Slot(233, "JP (" \o ix \o ")", "JP_X", <<i, register2>>),
    Slot(249, "LD SP," \o ix, "LD_SP", <<i, register2>>)
  >>

\* The value of one property of the literal: a descriptor, a table
\* reference, or the exception its combinator call raised.
SlotValue(slot) ==
  IF "table" \in DOMAIN slot THEN [table |-> slot.table]
  ELSE LET ast == CallCombinator(slot.fn, slot.args) IN
       IF IsThrow(ast) THEN ast
       ELSE IF "operand" \in DOMAIN slot
       THEN [name |-> slot.name, ast |-> ast, operand |-> slot.operand]
       ELSE [name |-> slot.name, ast |-> ast]

\* The object returned, as a function from the populated keys to their
\* values, or the first exception raised while evaluating the literal.
generateIndexTable(index) ==
  LET slots == IndexSlots(index)
      thrown == {k \in DOMAIN slots : IsThrow(SlotValue(slots[k]))}
  IN IF thrown # {}
     THEN SlotValue(slots[CHOOSE k \in thrown : \A j \in thrown : k <= j])
     ELSE [jstype |-> "object",
           props |-> [key \in {slots[k].key : k \in DOMAIN slots} |->
                        SlotValue(slots[CHOOSE k \in DOMAIN slots :
                                            slots[k].key = key])]]

---------------------------------------------------------------------------
(* The decoder driver decode_block(rom, start_pc), after section 4.4 of    *)
(* the specification; one DecodeStep is one iteration of its loop.         *)

opcodeTableDD == generateIndexTable(Str(<<"I", "X">>))

opcodeTableFD == generateIndexTable(Str(<<"I", "Y">>))

sign_extend(byte) == IF byte >= 128 THEN byte - 256 ELSE byte

\* Bytes consumed after the opcode byte for an operand tag (0: no tag).
OperandBytes(kind) ==
  CASE kind = UINT8 -> 1 [] kind = INT8 -> 1 [] kind = UINT16 -> 2
    [] OTHER -> 0

OperandKind(entry) == IF "operand" \in DOMAIN entry THEN entry.operand ELSE 0

\* The byte of the ROM at address addr (only called inside the buffer).
RomAt(addr) == rom[addr - base + 1]

InRom(addr) == addr - base + 1 \in DOMAIN rom

\* Table lookup for the opcode at address p (step 2).  The result is the
\* descriptor and the number of prefix bytes, or a failure.  The CB and ED
\* tables are not part of the sources: their entries carry no emitter here.
Lookup(p) ==
  LET op == RomAt(p) IN
  CASE op \in {203, 237} ->
         IF InRom(p + 1)
         THEN [ok |-> TRUE, prefix_bytes |-> 1, entry |-> [name |-> ""]]
         ELSE [ok |-> FALSE]
    [] op \in {221, 253} ->
         LET table == IF op = 221 THEN opcodeTableDD ELSE opcodeTableFD IN
         IF IsThrow(table) \/ ~InRom(p + 1) THEN [ok |-> FALSE]
         ELSE LET sub == RomAt(p + 1) IN
              IF sub \in DOMAIN table.props /\ sub # 203
              THEN [ok |-> TRUE, prefix_bytes |-> 1,
                    entry |-> table.props[sub]]
              ELSE IF sub = 203
              THEN [ok |-> InRom(p + 3), prefix_bytes |-> 3,
                    entry |-> [name |-> ""]]
              ELSE [ok |-> TRUE, prefix_bytes |-> 1,
                    entry |-> opcodeTable[sub + 1]]
    [] OTHER -> [ok |-> TRUE, prefix_bytes |-> 0, entry |-> opcodeTable[op + 1]]

\* Steps 3 and 4: the operand, the branch target and the IR of the
\* instruction at address p whose operand starts at address q.
OperandValue(kind, q) ==
  CASE kind = UINT8 -> Num(RomAt(q))
    [] kind = INT8 -> Num(sign_extend(RomAt(q)))
    [] kind = UINT16 -> Num(RomAt(q) + 256 * RomAt(q + 1))
    [] OTHER -> undefined

OperandTarget(kind, q) ==
  CASE kind = INT8 -> Num(q + 1 + sign_extend(RomAt(q)))
    [] kind = UINT16 -> Num(RomAt(q) + 256 * RomAt(q + 1))
    [] OTHER -> undefined

\* Step 7: why the block stops after this instruction ("" when it goes on).
Terminator(op, prefix_bytes, entry) ==
  IF prefix_bytes = 0 /\ op = 201 THEN "ret"
  ELSE IF prefix_bytes = 0 /\ op = 195 THEN "jp"
  ELSE IF prefix_bytes = 0 /\ op = 118 THEN "halt"
  ELSE IF "ast" \notin DOMAIN entry THEN "undecodable"
  ELSE ""

\* Steps 4 and 5: the record of the instruction at address p.
DecodedInstruction(p, op, prefix_bytes, entry, length, value, target) ==
  IF "ast" \in DOMAIN entry
  THEN [pc |-> p, opcode |-> op, prefix_bytes |-> prefix_bytes,
        entry |-> entry, length |-> length, value |-> value,
        target |-> target,
        ir |-> Invoke(entry.ast, value, target, Num(p))]
  ELSE [pc |-> p, opcode |-> op, prefix_bytes |-> prefix_bytes,
        entry |-> entry, length |-> length, value |-> value,
        target |-> target]

\* Steps 3 to 7 for the descriptor found at address p.
DecodeEntry(p, op, prefix_bytes, entry, kind) ==
  LET q == p + 1 + prefix_bytes
      length == 1 + prefix_bytes + OperandBytes(kind)
  IN IF ~InRom(p + length - 1)
     THEN /\ terminated_by' = "undecodable"
          /\ UNCHANGED <<pc, instructions>>
     ELSE /\ instructions' =
               Append(instructions,
                      DecodedInstruction(p, op, prefix_bytes, entry, length,
                                         OperandValue(kind, q),
                                         OperandTarget(kind, q)))
          /\ pc' = p + length
          /\ terminated_by' = Terminator(op, prefix_bytes, entry)

\* Step 2 has been done: found is the result of the table lookup.
DecodeFound(p, found) ==
  IF ~found.ok
  THEN /\ terminated_by' = "undecodable"
       /\ UNCHANGED <<pc, instructions>>
  ELSE DecodeEntry(p, RomAt(p), found.prefix_bytes, found.entry,
                   OperandKind(found.entry))

\* One iteration of the loop of decode_block.
DecodeStep ==
  /\ mode = "decode"
  /\ terminated_by = ""
  /\ IF ~InRom(pc)
     THEN /\ terminated_by' = "undecodable"
          /\ UNCHANGED <<pc, instructions>>
     ELSE DecodeFound(pc, Lookup(pc))
  /\ UNCHANGED <<mode, rom, base, call, argv, emitter, ir,
                 indexName, indexTable, utils>>

---------------------------------------------------------------------------
(* JSSMS.Utils.  Math.random() returns a number of [0, 1): the draws       *)
(* explored are the multiples random / RandomSteps of 1 / RandomSteps.     *)

RandomSteps == 8    \* resolution of the draws of Math.random()

\* Math.round(num / den): the nearest integer, halves rounded up.
MathRound(num, den) == (2 * num + den) \div (2 * den)

\* rndInt(range) when Math.random() returns random / RandomSteps.
rndInt(range, random) == MathRound(random * range, RandomSteps)

---------------------------------------------------------------------------
(* Bounds of the explored inputs.                                          *)
RomTailLen == 3     \* bytes of the ROM after the first opcode byte
NumBytes == 4       \* how many of ByteSamples the ROM tail draws from
NumPcs == 2         \* how many of PcSamples decode_block starts at
NumRegs == 3        \* how many of RegSamples the combinator calls use
NumWords == 2       \* how many of WordSamples the emitters are invoked with
MaxRange == 4       \* largest argument of rndInt

Prefix(seq, k) == {seq[j] : j \in 1..(IF k < Len(seq) THEN k ELSE Len(seq))}

ByteSamples == <<33, 254, 0, 128, 205, 171, 127, 255, 1, 195>>
PcSamples == <<0, 256, 65533, 32767>>
RegSamples == <<"a", "b", "c", "h", "l", "d", "e">>
WordSamples == <<4660, 65535, 0, 8192, 43981>>

Bytes == Prefix(ByteSamples, NumBytes)
Pcs == Prefix(PcSamples, NumPcs)
Regs == {Str(<<r>>) : r \in Prefix(RegSamples, NumRegs)}
Words == {Num(w) : w \in Prefix(WordSamples, NumWords)}

\* Values a combinator parameter takes: absent, the marker 'n', a register.
ArgVals == {undefined, Str(<<"n">>)} \cup Regs
Addrs == {Str(<<"n">>)} \cup Regs
Operators == {undefined, Str(<<"=", "=">>), Str(<<"!", "=">>)}
BitMasks == {undefined, Num(F_ZERO), Num(F_CARRY)}
Tests == {Literal([jstype |-> "boolean", bool |-> TRUE]),
          BinaryExpression("!=", Register("b"), Literal(Num(0)))}

Tuples1(A) == {<<a>> : a \in A}
Tuples2(A, B) == {<<a, b>> : a \in A, b \in B}
Tuples3(A, B, C) == {<<a, b, c>> : a \in A, b \in B, c \in C}
Tuples4(A, B, C, D) == {<<a, b, c, d>> : a \in A, b \in B, c \in C, d \in D}

Calls(fn, argss) == {[fn |-> fn, args |-> args] : args \in argss}

\* The combinator calls explored: every combinator of `o` that returns an
\* emitter, with every argument pattern over the sampled values.
CallDomain ==
  Calls("NOOP", {<<>>}) \cup Calls("LD_SP", {<<>>}) \cup Calls("EX_AF", {<<>>})
    \cup Calls("RLA", {<<>>}) \cup Calls("RRA", {<<>>})
    \cup Calls("DJNZ", {<<>>})
    \cup Calls("LD8", Tuples3(Regs, ArgVals, ArgVals))
    \cup Calls("LD16", Tuples4(Regs, Regs, ArgVals, ArgVals))
    \cup Calls("LD_WRITE_MEM", Tuples4(Addrs, Addrs, ArgVals, ArgVals))
    \cup Calls("INC8", Tuples1(Regs)) \cup Calls("DEC8", Tuples1(Regs))
    \cup Calls("INC16", Tuples2(Regs, Regs))
    \cup Calls("DEC16", Tuples2(Regs, Regs))
    \cup Calls("ADD16", Tuples4(Regs, Regs, Regs, Regs))
    \cup Calls("ADD", Tuples2(Regs \cup {undefined}, Regs \cup {undefined}))
    \cup Calls("SUB", Tuples1(Regs \cup {undefined}))
    \cup Calls("AND", Tuples1(Regs \cup {undefined}))
    \cup Calls("XOR", Tuples1(Regs \cup {undefined}))
    \cup Calls("OR", Tuples1(Regs))
    \cup Calls("JR", Tuples1(Tests))
    \cup Calls("RET", Tuples2(Operators, BitMasks))
    \cup Calls("JP", Tuples2(Operators, BitMasks))
    \cup Calls("CALL", Tuples2(Operators, BitMasks))
    \cup Calls("RST", Tuples1(Words))

pending == [jstype |-> "pending"]

---------------------------------------------------------------------------
(* Initial states: one per entry point and input.                          *)

InitDecode ==
  /\ mode = "decode"
  /\ rom \in {<<op>> \o tail : op \in 0..255, tail \in [1..RomTailLen -> Bytes]}
  /\ base \in Pcs
  /\ pc = base
  /\ instructions = <<>>
  /\ terminated_by = ""
  /\ call = pending /\ argv = <<>> /\ emitter = pending /\ ir = pending
  /\ indexName = pending /\ indexTable = pending
  /\ utils = pending

InitCombinator ==
  /\ mode = "combinator"
  /\ call \in CallDomain
  /\ argv \in Tuples3(Words \cup {undefined}, Words \cup {undefined}, Words)
  /\ emitter = pending
  /\ ir = pending
  /\ rom = <<>> /\ base = 0 /\ pc = 0 /\ instructions = <<>>
  /\ terminated_by = ""
  /\ indexName = pending /\ indexTable = pending
  /\ utils = pending

InitStartup ==
  /\ mode = "startup"
  /\ indexName \in {Str(<<"I", "X">>), Str(<<"I", "Y">>)}
  /\ indexTable = pending
  /\ rom = <<>> /\ base = 0 /\ pc = 0 /\ instructions = <<>>
  /\ terminated_by = ""
  /\ call = pending /\ argv = <<>> /\ emitter = pending /\ ir = pending
  /\ utils = pending

\* rndInt(range) is about to be called; Math.random() will return
\* random / RandomSteps.
InitUtils ==
  /\ mode = "utils"
  /\ utils \in [range : 1..MaxRange, random : 0..(RandomSteps - 1)]
  /\ rom = <<>> /\ base = 0 /\ pc = 0 /\ instructions = <<>>
  /\ terminated_by = ""
  /\ call = pending /\ argv = <<>> /\ emitter = pending /\ ir = pending
  /\ indexName = pending /\ indexTable = pending

Init == InitDecode \/ InitCombinator \/ InitStartup \/ InitUtils

\* The call o.<fn>(args): table-construction time.
Build ==
  /\ mode = "combinator"
  /\ emitter = pending
  /\ emitter' = CallCombinator(call.fn, call.args)
  /\ UNCHANGED <<mode, rom, base, pc, instructions, terminated_by,
                 call, argv, ir, indexName, indexTable, utils>>

\* The call of the pending emitter: decode time.
Emit ==
  /\ mode = "combinator"
  /\ IsFunction(emitter)
  /\ ir = pending
  /\ ir' = Invoke(emitter, argv[1], argv[2], argv[3])
  /\ UNCHANGED <<mode, rom, base, pc, instructions, terminated_by,
                 call, argv, emitter, indexName, indexTable, utils>>

\* The call generateIndexTable(indexName): table-construction time.
Startup ==
  /\ mode = "startup"
  /\ indexTable = pending
  /\ indexTable' = generateIndexTable(indexName)
  /\ UNCHANGED <<mode, rom, base, pc, instructions, terminated_by,
                 call, argv, emitter, ir, indexName, utils>>

\* The call JSSMS.Utils.rndInt(utils.range).
RndInt ==
  /\ mode = "utils"
  /\ "result" \notin DOMAIN utils
  /\ utils' = [range |-> utils.range, random |-> utils.random,
               result |-> rndInt(utils.range, utils.random)]
  /\ UNCHANGED <<mode, rom, base, pc, instructions, terminated_by,
                 call, argv, emitter, ir, indexName, indexTable>>

Next == DecodeStep \/ Build \/ Emit \/ Startup \/ RndInt

Spec == Init /\ [][Next]_vars

---------------------------------------------------------------------------
(* Properties.                                                             *)

\* The block being decoded has stopped.
Stopped == mode = "decode" /\ terminated_by # ""

\* The first opcode byte of the ROM went through the unprefixed table and
\* was recorded.
Recorded(op) ==
  /\ mode = "decode"
  /\ rom[1] = op
  /\ Len(instructions) >= 1

HasIR(inst) == "ir" \in DOMAIN inst

\* The little-endian 16-bit operand that follows the first opcode byte.
Imm16 == rom[2] + 256 * rom[3]

\* C1: for every index i in 0..255 the entry opcodeTable[i] has a `name`
\* that is a non-empty string.
\* Stated on the entry of the byte the decoded block started with, which
\* ranges over 0..255.
C1_EveryEntryNamed ==
  Stopped =>
    /\ "name" \in DOMAIN opcodeTable[rom[1] + 1]
    /\ opcodeTable[rom[1] + 1].name # ""

\* The mnemonic a descriptor carries, whatever the property is called.
Mnemonic(entry) == IF "name" \in DOMAIN entry THEN entry.name ELSE entry.ame

R8 == <<"B", "C", "D", "E", "H", "L", "(HL)", "A">>
R16 == <<"BC", "DE", "HL", "SP">>
ALU == <<"ADD", "ADC", "SUB", "SBC", "AND", "XOR", "OR", "CP">>
CC == <<"NZ", "Z", "NC", "C", "PO", "PE", "P", "M">>
RSTName == <<"00H", "08H", "10H", "18H", "20H", "28H", "30H", "38H">>

\* The opcode bytes whose mnemonic follows from the Z80 encoding grid.
GridBytes ==
  {i \in 0..255 :
     \/ i \in 64..191 /\ i # 118
     \/ i < 64 /\ (i % 8 \in {4, 5, 6} \/ i % 16 \in {1, 3, 9, 11})
     \/ i >= 192 /\ i % 8 \in {0, 2, 4, 7}}

\* The mnemonic the Z80 encoding assigns to a byte of GridBytes.
Z80Mnemonic(i) ==
  LET y == ((i % 64) \div 8) + 1
      z == (i % 8) + 1
      p == ((i % 64) \div 16) + 1
  IN CASE i \in 64..127 -> "LD " \o R8[y] \o "," \o R8[z]
       [] i \in 128..191 -> ALU[y] \o " A," \o R8[z]
       [] i < 64 /\ i % 8 = 4 -> "INC " \o R8[y]
       [] i < 64 /\ i % 8 = 5 -> "DEC " \o R8[y]
       [] i < 64 /\ i % 8 = 6 -> "LD " \o R8[y] \o ",n"
       [] i < 64 /\ i % 16 = 1 -> "LD " \o R16[p] \o ",nn"
       [] i < 64 /\ i % 16 = 3 -> "INC " \o R16[p]
       [] i < 64 /\ i % 16 = 9 -> "ADD HL," \o R16[p]
       [] i < 64 /\ i % 16 = 11 -> "DEC " \o R16[p]
       [] i >= 192 /\ i % 8 = 0 -> "RET " \o CC[y]
       [] i >= 192 /\ i % 8 = 2 -> "JP " \o CC[y] \o ",(nn)"
       [] i >= 192 /\ i % 8 = 4 -> "CALL " \o CC[y] \o " (nn)"
       [] i >= 192 /\ i % 8 = 7 -> "RST " \o RSTName[y]

\* The table has 256 entries and follows the grid.
TableFollowsGrid ==
  /\ Len(opcodeTable) = 256
  /\ \A i \in GridBytes : Mnemonic(opcodeTable[i + 1]) = Z80Mnemonic(i)

\* C2: opcodeTable has exactly 256 entries and the entry at index i is the
\* descriptor of opcode byte i: on every byte whose mnemonic the Z80
\* encoding grid fixes, the entry at that index carries that mnemonic (so
\* no entry is missing, duplicated or shifted), and every instruction the
\* decoder records from the unprefixed table carries the descriptor of its
\* opcode byte.
C2_TableDense ==
  /\ TableFollowsGrid
  /\ \A k \in DOMAIN instructions :
       instructions[k].prefix_bytes = 0 /\ instructions[k].opcode \in GridBytes
         => Mnemonic(instructions[k].entry)
              = Z80Mnemonic(instructions[k].opcode)

\* C2 witness: the last opcode byte, 0xFF, was decoded and got "RST 38H".
C2_Witness ==
  /\ Recorded(255)
  /\ instructions[1].opcode = 255
  /\ instructions[1].entry.name = "RST 38H"


\* pc = Literal(nn); return;
JumpTo(nn) ==
  Arr(<<ExpressionStatement(AssignmentExpression("=", Identifier("pc"),
          Literal(Num(nn)))),
        ReturnStatement(undefined)>>)

\* C3: decoding 0xC3 lo hi yields exactly [pc = Literal(hi*256 + lo),
\* ReturnStatement], consumes 3 bytes and terminates the block with "jp".
C3_JPAbsolute ==
  Stopped /\ rom[1] = 195 =>
    /\ Len(instructions) = 1
    /\ instructions[1].length = 3
    /\ HasIR(instructions[1])
    /\ instructions[1].ir = JumpTo(Imm16)
    /\ terminated_by = "jp"

\* if (true) {pc = target; tstates -= 5;}
JumpRelative(target) ==
  IfStatement(
    Literal([jstype |-> "boolean", bool |-> TRUE]),
    BlockStatement(Arr(<<
      ExpressionStatement(AssignmentExpression("=", Identifier("pc"),
        Literal(Num(target)))),
      ExpressionStatement(AssignmentExpression("-=", Identifier("tstates"),
        Literal(Num(5))))>>)),
    undefined)

\* C4: decoding 0x18 d at address p yields an IfStatement on the true
\* literal whose block is [pc = Literal(p + 2 + sign_extend(d)),
\* tstates -= Literal(5)].
C4_JRRelative ==
  Stopped /\ rom[1] = 24 =>
    /\ Len(instructions) >= 1
    /\ HasIR(instructions[1])
    /\ instructions[1].ir
         = JumpRelative(base + 2 + (IF rom[2] >= 128 THEN rom[2] - 256
                                                      ELSE rom[2]))

\* C5: an entry whose mnemonic names only registers (the loads 0x40..0x7F
\* and the accumulator operations 0x80..0xBF) carries no operand tag, so the
\* decoder consumes no byte after the opcode.
C5_RegisterOnlyNoOperand ==
  \A k \in DOMAIN instructions :
    instructions[k].prefix_bytes = 0 /\ instructions[k].opcode \in 64..191
      => /\ "operand" \notin DOMAIN instructions[k].entry
         /\ instructions[k].length = 1

\* set<pair>(Literal(v));
SetPair(pair, v) ==
  ExpressionStatement(
    [type |-> "CallExpression",
     callee |-> [type |-> "Identifier", name |-> "set" \o pair],
     arguments |-> Arr(<<[type |-> "Literal", value |-> Num(v)]>>)])

\* C6: decoding 0xDD 0x21 lo hi yields a single instruction of length 4
\* whose IR is setIX(Literal(hi*256 + lo)); the same with 0xFD and setIY.
C6_LoadIndexImmediate ==
  Stopped /\ rom[1] \in {221, 253} /\ rom[2] = 33 =>
    /\ Len(instructions) >= 1
    /\ instructions[1].length = 4
    /\ HasIR(instructions[1])
    /\ instructions[1].ir
         = SetPair(IF rom[1] = 221 THEN "IX" ELSE "IY", rom[3] + 256 * rom[4])

\* The other register family.
OtherIndex(name) ==
  IF EqStr(name, <<"I", "X">>) THEN Str(<<"I", "Y">>) ELSE Str(<<"I", "X">>)

\* Two index tables populate the same keys with the same fields and the
\* same operand tags.
EqualShape(t1, t2) ==
  /\ DOMAIN t1.props = DOMAIN t2.props
  /\ \A key \in DOMAIN t1.props :
       /\ DOMAIN t1.props[key] = DOMAIN t2.props[key]
       /\ "operand" \in DOMAIN t1.props[key]
            => t1.props[key].operand = t2.props[key].operand
       /\ "ast" \in DOMAIN t1.props[key]
            => t1.props[key].ast.fn = t2.props[key].ast.fn

\* C7: generateIndexTable("IX") and generateIndexTable("IY") produce tables
\* of equal shape.
C7_IndexTablesEqualShape ==
  mode = "startup" /\ indexTable # pending =>
    /\ IsJS(indexTable, "object")
    /\ IsJS(generateIndexTable(OtherIndex(indexName)), "object")
    /\ EqualShape(indexTable, generateIndexTable(OtherIndex(indexName)))


\* C8: LD16 called with a destination pattern other than the two tolerated
\* ones (both destination arguments absent, or 'n', 'n') raises an error at
\* call time and returns no emitter; the two tolerated patterns raise
\* nothing and return an emitter, which emits a statement when invoked.
C8_LD16Arity ==
  mode = "combinator" /\ call.fn = "LD16" /\ emitter # pending =>
    LET d1 == call.args[3]
        d2 == call.args[4]
        tolerated == \/ d1 = undefined /\ d2 = undefined
                     \/ d1 = Str(<<"n">>) /\ d2 = Str(<<"n">>)
    IN IF tolerated
       THEN /\ IsFunction(emitter)
            /\ ir # pending => ir.type = "ExpressionStatement"
       ELSE /\ IsThrow(emitter)
            /\ emitter.error = "Error"
            /\ ir = pending

\* C8 witness: LD16(hi, lo, 'n') was called and raised.
C8_Witness ==
  /\ mode = "combinator"
  /\ call.fn = "LD16"
  /\ call.args[3] = Str(<<"n">>)
  /\ call.args[4] = undefined
  /\ IsThrow(emitter)

\* f = SZP_TABLE[a];
FlagsFromTable ==
  [type |-> "ExpressionStatement",
   expression |->
     [type |-> "AssignmentExpression", operator |-> "=",
      left |-> [type |-> "Register", name |-> "f"],
      right |-> [type |-> "MemberExpression", computed |-> TRUE,
                 object |-> [type |-> "Identifier", name |-> "SZP_TABLE"],
                 property |-> [type |-> "Register", name |-> "a"]]]]

\* a <operator> <right>;
Accumulate(operator, right) ==
  [type |-> "ExpressionStatement",
   expression |->
     [type |-> "AssignmentExpression", operator |-> operator,
      left |-> [type |-> "Register", name |-> "a"], right |-> right]]

\* a = 0; f = <the value of SZP_TABLE[0]>;
ClearAccumulator ==
  Arr(<<Accumulate("=", [type |-> "Literal", value |-> Num(0)]),
        [type |-> "ExpressionStatement",
         expression |->
           [type |-> "AssignmentExpression", operator |-> "=",
            left |-> [type |-> "Register", name |-> "f"],
            right |-> [type |-> "Literal", value |-> Num(SZP_TABLE_0)]]]>>)

\* C9: the emitter of opcode 0xAF (XOR('a')) returns exactly a = Literal(0)
\* and f = Literal(SZP_TABLE[0]), the flag value inlined as a literal; for a
\* register r other than 'a', XOR(r) returns a ^= Register(r) followed by
\* f = SZP_TABLE[a]; XOR() returns a ^= Literal(value) followed by the same
\* flag statement.
C9_XorCollapse ==
  /\ \A k \in DOMAIN instructions :
       instructions[k].prefix_bytes = 0 /\ instructions[k].opcode = 175
         => HasIR(instructions[k]) /\ instructions[k].ir = ClearAccumulator
  /\ mode = "combinator" /\ call.fn = "XOR" /\ ir # pending =>
       LET r == call.args[1] IN
       ir = IF r = Str(<<"a">>) THEN ClearAccumulator
            ELSE IF r = undefined
            THEN Arr(<<Accumulate("^=", [type |-> "Literal",
                                          value |-> argv[1]]),
                       FlagsFromTable>>)
            ELSE Arr(<<Accumulate("^=", [type |-> "Register",
                                          name |-> r.chars[1]]),
                       FlagsFromTable>>)

\* C9 witness: XOR A (0xAF) was decoded and its emitter produced IR.
C9_Witness ==
  /\ Recorded(175)
  /\ instructions[1].opcode = 175
  /\ HasIR(instructions[1])
  /\ instructions[1].ir.elements[2].expression.right.type = "Literal"

\* The upper-case letter of a register name.
UC(r) ==
  CASE r = Str(<<"a">>) -> "A" [] r = Str(<<"b">>) -> "B"
    [] r = Str(<<"c">>) -> "C" [] r = Str(<<"d">>) -> "D"
    [] r = Str(<<"e">>) -> "E" [] r = Str(<<"h">>) -> "H"
    [] r = Str(<<"l">>) -> "L"

\* The 16-bit operand that follows the opcode byte of a recorded instruction.
OperandWord(inst) ==
  rom[inst.pc - base + 2] + 256 * rom[inst.pc - base + 3]

\* C10: for each register pair (hi, lo) and every 16-bit value v the
\* emitter returned by LD16(hi, lo) produces a single ExpressionStatement
\* calling set<HI LO> with the one argument Literal(v); for opcodes 0x01,
\* 0x11, 0x21 the callee is setBC, setDE, setHL and the operand tag is
\* UINT16.
C10_LD16Immediate ==
  /\ \A k \in DOMAIN instructions :
       LET inst == instructions[k] IN
       inst.prefix_bytes = 0 /\ inst.opcode \in {1, 17, 33}
         => /\ "operand" \in DOMAIN inst.entry
            /\ inst.entry.operand = UINT16
            /\ HasIR(inst)
            /\ inst.ir = SetPair(CASE inst.opcode = 1 -> "BC"
                                   [] inst.opcode = 17 -> "DE"
                                   [] inst.opcode = 33 -> "HL",
                                 OperandWord(inst))
  /\ /\ mode = "combinator" /\ call.fn = "LD16"
     /\ call.args[3] = undefined /\ call.args[4] = undefined
     /\ ir # pending /\ IsJS(argv[1], "number")
     => ir = SetPair(UC(call.args[1]) \o UC(call.args[2]), argv[1].num)

\* C10 witness: LD BC,nn (0x01) was decoded into setBC(Literal(nn)).
C10_Witness ==
  /\ Recorded(1)
  /\ instructions[1].opcode = 1
  /\ HasIR(instructions[1])
  /\ instructions[1].ir = SetPair("BC", Imm16)

\* b = (b - 1) & 0xFF; if (b != 0) {pc = target; tstates -= 5;}
DecrementAndJump(target) ==
  Arr(<<
    [type |-> "ExpressionStatement",
     expression |->
       [type |-> "AssignmentExpression", operator |-> "=",
        left |-> [type |-> "Register", name |-> "b"],
        right |->
          [type |-> "BinaryExpression", operator |-> "&",
           left |-> [type |-> "BinaryExpression", operator |-> "-",
                     left |-> [type |-> "Register", name |-> "b"],
                     right |-> [type |-> "Literal", value |-> Num(1)]],
           right |-> [type |-> "Literal", value |-> Num(255)]]]],
    [type |-> "IfStatement",
     test |-> [type |-> "BinaryExpression", operator |-> "!=",
               left |-> [type |-> "Register", name |-> "b"],
               right |-> [type |-> "Literal", value |-> Num(0)]],
     consequent |->
       [type |-> "BlockStatement",
        body |-> Arr(<<
          [type |-> "ExpressionStatement",
           expression |->
             [type |-> "AssignmentExpression", operator |-> "=",
              left |-> [type |-> "Identifier", name |-> "pc"],
              right |-> [type |-> "Literal", value |-> target]]],
          [type |-> "ExpressionStatement",
           expression |->
             [type |-> "AssignmentExpression", operator |-> "-=",
              left |-> [type |-> "Identifier", name |-> "tstates"],
              right |-> [type |-> "Literal", value |-> Num(5)]]]>>)],
     alternate |-> null]>>)

\* The entry has an emitter and the given operand tag.
TaggedEmitter(entry, kind) ==
  /\ "ast" \in DOMAIN entry
  /\ "operand" \in DOMAIN entry
  /\ entry.operand = kind

\* C11: for every entry tagged INT8 that has an emitter (DJNZ, 0x10) the IR
\* is [b = (b - 1) & 0xFF, if (b != 0) {pc = Literal(target);
\* tstates -= Literal(5)}] whatever value is passed; for every entry
\* tagged UINT16 whose emitter is not JP, CALL or JR the IR changes with
\* value and does not change with target.
C11_OperandConsistency ==
  /\ \A k \in DOMAIN instructions :
       LET inst == instructions[k] IN
       inst.prefix_bytes = 0 /\ TaggedEmitter(inst.entry, INT8)
         => /\ HasIR(inst)
            /\ inst.ir = DecrementAndJump(inst.target)
            /\ \A w \in Words \cup {undefined} :
                 Invoke(inst.entry.ast, w, inst.target, Num(inst.pc))
                   = inst.ir
  /\ mode = "combinator" /\ call.fn = "DJNZ" /\ ir # pending
       => ir = DecrementAndJump(argv[2])
  /\ \A k \in DOMAIN instructions :
       LET inst == instructions[k] IN
       /\ inst.prefix_bytes = 0
       /\ TaggedEmitter(inst.entry, UINT16)
       /\ inst.entry.ast.fn \notin {"JP", "CALL", "JR"}
       => /\ HasIR(inst)
          /\ \A w \in Words \cup {undefined} :
               /\ Invoke(inst.entry.ast, inst.value, w, Num(inst.pc))
                    = inst.ir
               /\ w # inst.value
                    => Invoke(inst.entry.ast, w, inst.target, Num(inst.pc))
                         # inst.ir

\* C11 witness: DJNZ with the displacement -2 was decoded at a start address
\* above zero: the value passed is -2 and the IR jumps to the start address.
C11_Witness ==
  /\ Recorded(16)
  /\ rom[2] = 254
  /\ base > 0
  /\ HasIR(instructions[1])
  /\ instructions[1].value = Num(-2)
  /\ instructions[1].target = Num(base)
  /\ instructions[1].ir = DecrementAndJump(Num(base))

\* The names a Register node may carry.
RegisterNames == {"a", "b", "c", "d", "e", "h", "l", "f"}

\* Every CallExpression below x has an Identifier as callee, every
\* MemberExpression is computed, every Register carries a canonical name.
RECURSIVE WellFormed(_)
WellFormed(x) ==
  IF "jstype" \in DOMAIN x
  THEN IF x.jstype = "array"
       THEN \A i \in DOMAIN x.elements : WellFormed(x.elements[i])
       ELSE TRUE
  ELSE CASE x.type = "IfStatement" ->
              /\ WellFormed(x.test)
              /\ WellFormed(x.consequent)
              /\ WellFormed(x.alternate)
         [] x.type = "BlockStatement" -> WellFormed(x.body)
         [] x.type = "ExpressionStatement" -> WellFormed(x.expression)
         [] x.type = "Register" -> x.name \in RegisterNames
         [] x.type = "CallExpression" ->
              /\ "type" \in DOMAIN x.callee
              /\ x.callee.type = "Identifier"
              /\ WellFormed(x.arguments)
         [] x.type \in {"AssignmentExpression", "BinaryExpression"} ->
              WellFormed(x.left) /\ WellFormed(x.right)
         [] x.type = "MemberExpression" ->
              /\ x.computed = TRUE
              /\ WellFormed(x.object)
              /\ WellFormed(x.property)
         [] x.type = "ReturnStatement" -> WellFormed(x.argument)
         [] OTHER -> TRUE

\* The emitters the entries of the main table hold.
TableEmitters ==
  {opcodeTable[i].ast : i \in {j \in 1..256 : "ast" \in DOMAIN opcodeTable[j]}}

\* C13: in all IR produced by an emitter of the main opcode table, for any
\* arguments, every CallExpression node has an Identifier node as callee,
\* every MemberExpression node has computed = true, and every Register node
\* carries one lowercase letter among a, b, c, d, e, h, l, f.
C13_WellFormedIR ==
  /\ \A k \in DOMAIN instructions :
       instructions[k].prefix_bytes = 0 /\ HasIR(instructions[k])
         => WellFormed(instructions[k].ir)
  /\ mode = "combinator" /\ emitter \in TableEmitters /\ ir # pending
       => WellFormed(ir)

\* C13 witness: OR A,B (0xB0) was decoded; its IR holds Register nodes and
\* the MemberExpression SZP_TABLE[a].
C13_Witness ==
  /\ Recorded(176)
  /\ instructions[1].opcode = 176
  /\ HasIR(instructions[1])
  /\ instructions[1].ir.elements[1].expression.right.type = "Register"
  /\ instructions[1].ir.elements[2].expression.right.type
       = "MemberExpression"

\* <dst> = <right>;
AssignRegister(dst, right) ==
  [type |-> "ExpressionStatement",
   expression |->
     [type |-> "AssignmentExpression", operator |-> "=",
      left |-> [type |-> "Register", name |-> dst], right |-> right]]

\* <callee>(<args>)
CallOf(callee, args) ==
  [type |-> "CallExpression",
   callee |-> [type |-> "Identifier", name |-> callee],
   arguments |-> Arr(args)]

\* The upper-case spelling of a one-letter argument ('n' included).
UCN(r) == IF r = Str(<<"n">>) THEN "N" ELSE UC(r)

\* The register names of the encoding grid, in lower case ((HL) has none).
r8 == <<"b", "c", "d", "e", "h", "l", "", "a">>

\* C14: LD8 dispatches on argument presence into four shapes, the first
\* argument always being the destination: LD8(dst) emits
\* dst = Literal(value); LD8(dst, src) emits dst = Register(src);
\* LD8(dst, 'n', 'n') emits dst = readMem(Literal(value)); LD8(dst, hi, lo)
\* emits dst = readMem(get<HI LO>()) with the pair name in upper case.
\* Every entry 0x40..0x7F of the main table with an LD8 emitter assigns to
\* the register its mnemonic names first from the one it names second.
C14_LD8Shapes ==
  /\ mode = "combinator" /\ call.fn = "LD8" /\ ir # pending
     /\ (call.args[2] = undefined => call.args[3] = undefined)
     => LET dst == call.args[1].chars[1]
            a2 == call.args[2]
            a3 == call.args[3]
        IN ir = IF a2 = undefined
                THEN AssignRegister(dst,
                       [type |-> "Literal", value |-> argv[1]])
                ELSE IF a3 = undefined
                THEN AssignRegister(dst,
                       [type |-> "Register", name |-> a2.chars[1]])
                ELSE IF a2 = Str(<<"n">>) /\ a3 = Str(<<"n">>)
                THEN AssignRegister(dst,
                       CallOf("readMem",
                              <<[type |-> "Literal", value |-> argv[1]]>>))
                ELSE AssignRegister(dst,
                       CallOf("readMem",
                              <<CallOf("get" \o UCN(a2) \o UCN(a3), <<>>)>>))
  /\ \A k \in DOMAIN instructions :
       LET inst == instructions[k]
           y == ((inst.opcode % 64) \div 8) + 1
           z == (inst.opcode % 8) + 1
       IN /\ inst.prefix_bytes = 0
          /\ inst.opcode \in 64..127
          /\ "ast" \in DOMAIN inst.entry
          /\ inst.entry.ast.fn = "LD8"
          => /\ inst.entry.name = "LD " \o R8[y] \o "," \o R8[z]
             /\ inst.ir =
                  IF z = 7
                  THEN AssignRegister(r8[y],
                         CallOf("readMem", <<CallOf("getHL", <<>>)>>))
                  ELSE AssignRegister(r8[y],
                         [type |-> "Register", name |-> r8[z]])

\* C14 witness: LD B,C (0x41) was decoded into b = Register(c).
C14_Witness ==
  /\ Recorded(65)
  /\ instructions[1].opcode = 65
  /\ HasIR(instructions[1])
  /\ instructions[1].ir.expression.left.name = "b"
  /\ instructions[1].ir.expression.right = [type |-> "Register", name |-> "c"]

\* writeMem(<address>, <data>);
WriteMem(address, data) ==
  [type |-> "ExpressionStatement",
   expression |-> CallOf("writeMem", <<address, data>>)]

\* value + 1 in JavaScript: a number, or NaN when value is absent.
Successor(value) ==
  IF value = undefined THEN NaN ELSE Num(value.num + 1)

\* The two writes of LD (nn),<hi lo>: low register first, at the lower
\* address.
WritePair(value, hi, lo) ==
  Arr(<<WriteMem([type |-> "Literal", value |-> value],
                 [type |-> "Register", name |-> lo]),
        WriteMem([type |-> "Literal", value |-> Successor(value)],
                 [type |-> "Register", name |-> hi])>>)

\* C15: LD_WRITE_MEM dispatches into four shapes: (hi, lo) emits
\* writeMem(get<HI LO>(), Literal(value)); (hi, lo, src) emits
\* writeMem(get<HI LO>(), Register(src)); ('n', 'n', src) emits
\* writeMem(Literal(value), Register(src)); ('n', 'n', hi, lo) emits, in
\* this order, writeMem(Literal(value), Register(lo)) and
\* writeMem(Literal(value + 1), Register(hi)).
C15_WriteMemShapes ==
  /\ /\ mode = "combinator" /\ call.fn = "LD_WRITE_MEM" /\ ir # pending
     /\ (call.args[3] = undefined => call.args[4] = undefined)
     /\ (call.args[4] # undefined
           => call.args[1] = Str(<<"n">>) /\ call.args[2] = Str(<<"n">>))
     => LET s1 == call.args[1]
            s2 == call.args[2]
            d1 == call.args[3]
            d2 == call.args[4]
            direct == s1 = Str(<<"n">>) /\ s2 = Str(<<"n">>)
            pair == CallOf("get" \o UCN(s1) \o UCN(s2), <<>>)
        IN ir = IF d1 = undefined
                THEN WriteMem(pair, [type |-> "Literal", value |-> argv[1]])
                ELSE IF d2 = undefined /\ ~direct
                THEN WriteMem(pair,
                              [type |-> "Register", name |-> d1.chars[1]])
                ELSE IF d2 = undefined
                THEN WriteMem([type |-> "Literal", value |-> argv[1]],
                              [type |-> "Register", name |-> d1.chars[1]])
                ELSE WritePair(argv[1], d1.chars[1], d2.chars[1])
  /\ \A k \in DOMAIN instructions :
       LET inst == instructions[k] IN
       inst.prefix_bytes = 0 /\ inst.opcode = 34
         => /\ HasIR(inst)
            /\ inst.ir = WritePair(Num(OperandWord(inst)), "h", "l")

\* C15 witness: LD (nn),HL (0x22) was decoded: the first write stores l at
\* nn, the second stores h at nn + 1.
C15_Witness ==
  /\ Recorded(34)
  /\ instructions[1].opcode = 34
  /\ HasIR(instructions[1])
  /\ instructions[1].ir.elements[1].expression.arguments.elements
       = <<[type |-> "Literal", value |-> Num(Imm16)],
           [type |-> "Register", name |-> "l"]>>
  /\ instructions[1].ir.elements[2].expression.arguments.elements
       = <<[type |-> "Literal", value |-> Num(Imm16 + 1)],
           [type |-> "Register", name |-> "h"]>>

\* <callee>(<argument>);
CallStatement(callee, argument) ==
  [type |-> "ExpressionStatement",
   expression |-> CallOf(callee, <<argument>>)]

\* <name> <operator> <right>;
AssignIdentifier(operator, name, right) ==
  [type |-> "ExpressionStatement",
   expression |->
     [type |-> "AssignmentExpression", operator |-> operator,
      left |-> [type |-> "Identifier", name |-> name], right |-> right]]

\* return;
Return == [type |-> "ReturnStatement", argument |-> null]

\* (f & Literal(mask)) <operator> Literal(0)
FlagCondition(operator, mask) ==
  [type |-> "BinaryExpression", operator |-> operator,
   left |-> [type |-> "BinaryExpression", operator |-> "&",
             left |-> [type |-> "Register", name |-> "f"],
             right |-> [type |-> "Literal", value |-> mask]],
   right |-> [type |-> "Literal", value |-> Num(0)]]

\* if (<test>) {<statements>}
If(test, statements) ==
  [type |-> "IfStatement", test |-> test,
   consequent |-> [type |-> "BlockStatement", body |-> Arr(statements)],
   alternate |-> null]

\* The operator and the flag mask of condition code y (NZ, Z, NC, C, PO, PE,
\* P, M) as the table passes them.
ConditionOperator(y) == IF y % 2 = 0 THEN "==" ELSE "!="
ConditionMask(y) == Num(<<F_ZERO, F_CARRY, F_PARITY, F_SIGN>>[(y \div 2) + 1])

\* The IR of CALL: unconditional, or under a condition.
CallIR(conditional, test, target, current_pc) ==
  IF ~conditional
  THEN Arr(<<CallStatement("push1", [type |-> "Literal",
                                     value |-> Num(current_pc + 2)]),
             AssignIdentifier("=", "pc",
                              [type |-> "Literal", value |-> target]),
             Return>>)
  ELSE If(test,
          <<CallStatement("push1", [type |-> "Literal",
                                    value |-> Num(current_pc + 2)]),
            AssignIdentifier("=", "pc",
                             [type |-> "Literal", value |-> target]),
            AssignIdentifier("-=", "tstates",
                             [type |-> "Literal", value |-> Num(7)]),
            Return>>)

\* C16: unconditional CALL emits, for every target and current_pc, exactly
\* [push1(Literal(current_pc + 2)), pc = Literal(target), ReturnStatement];
\* conditional CALL(op, mask) emits one IfStatement with the test
\* (f & Literal(mask)) op Literal(0) whose block is
\* [push1(Literal(current_pc + 2)), pc = Literal(target),
\* tstates -= Literal(7), ReturnStatement], and nothing outside that block.
C16_CallShapes ==
  /\ /\ mode = "combinator" /\ call.fn = "CALL" /\ ir # pending
     /\ (call.args[1] = undefined <=> call.args[2] = undefined)
     => ir = CallIR(call.args[1] # undefined,
                    FlagCondition(Join(call.args[1].chars), call.args[2]),
                    argv[2], argv[3].num)
  /\ \A k \in DOMAIN instructions :
       LET inst == instructions[k]
           y == (inst.opcode % 64) \div 8
       IN inst.prefix_bytes = 0
            /\ (inst.opcode = 205 \/ (inst.opcode >= 192
                                      /\ inst.opcode % 8 = 4))
          => /\ HasIR(inst)
             /\ inst.ir = CallIR(inst.opcode # 205,
                                 FlagCondition(ConditionOperator(y),
                                               ConditionMask(y)),
                                 inst.target, inst.pc)

\* C16 witness: a conditional CALL built from an operator and a mask was
\* invoked with a target and produced its IfStatement.
C16_Witness ==
  /\ mode = "combinator" /\ call.fn = "CALL"
  /\ call.args = <<Str(<<"=", "=">>), Num(F_ZERO)>>
  /\ argv[2] # undefined
  /\ ir # pending
  /\ ir.type = "IfStatement"
  /\ Len(ir.consequent.body.elements) = 4

\* pc = readMemWord(sp); sp += 2; return;
ReturnIR ==
  Arr(<<AssignIdentifier("=", "pc",
          CallOf("readMemWord", <<[type |-> "Identifier", name |-> "sp"]>>)),
        AssignIdentifier("+=", "sp", [type |-> "Literal", value |-> Num(2)]),
        Return>>)

\* The opcode bytes of the conditional RET entries (RET NZ .. RET M).
ConditionalRets == {192, 200, 208, 216, 224, 232, 240, 248}

\* C17: unconditional RET() emits exactly pc = readMemWord(sp),
\* sp += Literal(2), ReturnStatement, in this order; conditional
\* RET(op, mask) emits a single ExpressionStatement calling ret with the one
\* argument (f & Literal(mask)) op Literal(0) and no ReturnStatement; among
\* the RET entries of the main table only 0xC9 terminates the block.
C17_RetShapes ==
  /\ /\ mode = "combinator" /\ call.fn = "RET" /\ ir # pending
     /\ (call.args[1] = undefined <=> call.args[2] = undefined)
     => ir = IF call.args[1] = undefined
             THEN ReturnIR
             ELSE CallStatement("ret",
                    FlagCondition(Join(call.args[1].chars), call.args[2]))
  /\ \A k \in DOMAIN instructions :
       LET inst == instructions[k]
           y == (inst.opcode % 64) \div 8
       IN /\ inst.prefix_bytes = 0 /\ inst.opcode = 201
            => /\ HasIR(inst) /\ inst.ir = ReturnIR
               /\ k = Len(instructions)
               /\ terminated_by = "ret"
          /\ inst.prefix_bytes = 0 /\ inst.opcode \in ConditionalRets
            => /\ HasIR(inst)
               /\ inst.ir = CallStatement("ret",
                              FlagCondition(ConditionOperator(y),
                                            ConditionMask(y)))
               /\ k = Len(instructions) => terminated_by # "ret"

\* C17 witness: RET NZ (0xC0) was decoded into the single call of ret and
\* the block went on to decode the next instruction.
C17_Witness ==
  /\ Recorded(192)
  /\ instructions[1].opcode = 192
  /\ instructions[1].ir.type = "ExpressionStatement"
  /\ instructions[1].ir.expression.callee.name = "ret"
  /\ Len(instructions) >= 2

\* f = SZP_TABLE[a] | F_HALFCARRY;
FlagsWithHalfCarry ==
  [type |-> "ExpressionStatement",
   expression |->
     [type |-> "AssignmentExpression", operator |-> "=",
      left |-> [type |-> "Register", name |-> "f"],
      right |->
        [type |-> "BinaryExpression", operator |-> "|",
         left |-> [type |-> "MemberExpression", computed |-> TRUE,
                   object |-> [type |-> "Identifier", name |-> "SZP_TABLE"],
                   property |-> [type |-> "Register", name |-> "a"]],
         right |-> [type |-> "Literal", value |-> Num(F_HALFCARRY)]]]]

\* The IR of a bitwise operation on the accumulator: the flag statement
\* alone, or the update of a followed by the flag statement.
BitwiseIR(collapsed, operator, right, flags) ==
  IF collapsed THEN flags ELSE Arr(<<Accumulate(operator, right), flags>>)

\* C18: AND(r) and OR(r) emit the flag statement alone exactly when r is
\* 'a' (f = SZP_TABLE[a] | Literal(F_HALFCARRY) for AND, f = SZP_TABLE[a]
\* for OR, with no assignment to a); for every other register, and for
\* AND() with an immediate, they emit the update of the accumulator
\* (a &= r, a &= Literal(value), a |= r) followed by the flag statement.
C18_AndOrCollapse ==
  /\ mode = "combinator" /\ call.fn = "AND" /\ ir # pending
     => LET r == call.args[1] IN
        ir = IF r = undefined
             THEN BitwiseIR(FALSE, "&=",
                            [type |-> "Literal", value |-> argv[1]],
                            FlagsWithHalfCarry)
             ELSE BitwiseIR(r = Str(<<"a">>), "&=",
                            [type |-> "Register", name |-> r.chars[1]],
                            FlagsWithHalfCarry)
  /\ mode = "combinator" /\ call.fn = "OR" /\ ir # pending
     => LET r == call.args[1] IN
        ir = BitwiseIR(r = Str(<<"a">>), "|=",
                       [type |-> "Register", name |-> r.chars[1]],
                       FlagsFromTable)
  /\ \A k \in DOMAIN instructions :
       LET inst == instructions[k]
           z == (inst.opcode % 8) + 1
       IN /\ inst.prefix_bytes = 0 /\ inst.opcode \in 160..167 /\ z # 7
            => /\ HasIR(inst)
               /\ inst.ir = BitwiseIR(z = 8, "&=",
                              [type |-> "Register", name |-> r8[z]],
                              FlagsWithHalfCarry)
          /\ inst.prefix_bytes = 0 /\ inst.opcode \in 176..183 /\ z # 7
            => /\ HasIR(inst)
               /\ inst.ir = BitwiseIR(z = 8, "|=",
                              [type |-> "Register", name |-> r8[z]],
                              FlagsFromTable)
          /\ inst.prefix_bytes = 0 /\ inst.opcode = 230
            => /\ HasIR(inst)
               /\ inst.ir = BitwiseIR(FALSE, "&=",
                              [type |-> "Literal", value |-> inst.value],
                              FlagsWithHalfCarry)

\* C18 witness: AND A,A (0xA7) was decoded into the single flag statement.
C18_Witness ==
  /\ Recorded(167)
  /\ instructions[1].opcode = 167
  /\ HasIR(instructions[1])
  /\ instructions[1].ir = FlagsWithHalfCarry

\* C19: rndInt(range) returns, for every positive integer range and every
\* draw of [0, 1), an integer between 0 and range - 1 inclusive, never
\* range itself.
C19_RndIntBelowRange ==
  mode = "utils" /\ "result" \in DOMAIN utils
    => utils.result \in 0..(utils.range - 1)

\* The emitter embeds an immediate: its IR changes with the value or with
\* the target it is given.
ConsumesImmediate(f) ==
  \E w \in Words :
    \/ Invoke(f, w, undefined, Num(0))
         # Invoke(f, undefined, undefined, Num(0))
    \/ Invoke(f, undefined, w, Num(0))
         # Invoke(f, undefined, undefined, Num(0))

\* C20: every main-table entry whose emitter embeds an immediate carries the
\* operand tag of the matching width: entries built with JP(...) or
\* CALL(...) are tagged UINT16, entries built with SUB(), AND() or XOR()
\* without a register are tagged UINT8, and no entry has an
\* immediate-consuming emitter with the operand tag absent.
C20_ImmediateTagged ==
  \A k \in DOMAIN instructions :
    LET inst == instructions[k]
        entry == inst.entry
    IN inst.prefix_bytes = 0 /\ "ast" \in DOMAIN entry
       => /\ ConsumesImmediate(entry.ast) => "operand" \in DOMAIN entry
          /\ entry.ast.fn \in {"JP", "CALL"}
               => "operand" \in DOMAIN entry /\ entry.operand = UINT16
          /\ entry.ast.fn \in {"SUB", "AND", "XOR"}
               /\ entry.ast.env[1] = undefined
               => "operand" \in DOMAIN entry /\ entry.operand = UINT8

\* C21: generateIndexTable("IX") and generateIndexTable("IY") evaluate every
\* slot without raising: every combinator a slot invokes is defined in `o`,
\* and each populated slot ends up with an `ast` that is a callable pending
\* emitter.
C21_IndexTableBuilds ==
  mode = "startup" /\ indexTable # pending =>
    /\ ~IsThrow(indexTable)
    /\ \A k \in DOMAIN IndexSlots(indexName) :
         "fn" \in DOMAIN IndexSlots(indexName)[k]
           => IndexSlots(indexName)[k].fn \in o_keys
    /\ \A key \in DOMAIN indexTable.props :
         "name" \in DOMAIN indexTable.props[key]
           => /\ "ast" \in DOMAIN indexTable.props[key]
              /\ IsFunction(indexTable.props[key].ast)

\* Every numeric Literal below x lies in the 16-bit range.
RECURSIVE LiteralsIn16Bits(_)
LiteralsIn16Bits(x) ==
  IF "jstype" \in DOMAIN x
  THEN IF x.jstype = "array"
       THEN \A i \in DOMAIN x.elements : LiteralsIn16Bits(x.elements[i])
       ELSE TRUE
  ELSE CASE x.type = "IfStatement" ->
              /\ LiteralsIn16Bits(x.test)
              /\ LiteralsIn16Bits(x.consequent)
         [] x.type = "BlockStatement" -> LiteralsIn16Bits(x.body)
         [] x.type = "ExpressionStatement" -> LiteralsIn16Bits(x.expression)
         [] x.type = "Literal" ->
              IsJS(x.value, "number") => x.value.num \in 0..65535
         [] x.type = "CallExpression" -> LiteralsIn16Bits(x.arguments)
         [] x.type \in {"AssignmentExpression", "BinaryExpression"} ->
              LiteralsIn16Bits(x.left) /\ LiteralsIn16Bits(x.right)
         [] x.type = "MemberExpression" ->
              LiteralsIn16Bits(x.object) /\ LiteralsIn16Bits(x.property)
         [] OTHER -> TRUE

\* C22: every address Literal an emitter embeds stays in 0..0xFFFF for
\* every 16-bit operand and every 16-bit current_pc: the second write of
\* LD_WRITE_MEM('n', 'n', hi, lo) uses (value + 1) wrapped to 16 bits and
\* CALL pushes (current_pc + 2) wrapped to 16 bits.
C22_AddressesWrap ==
  mode = "combinator" /\ ir # pending => LiteralsIn16Bits(ir)

\* The emitted statements end by leaving the block, whatever the flags.
LeavesBlock(inst) ==
  /\ HasIR(inst)
  /\ IsArray(inst.ir)
  /\ Len(inst.ir.elements) >= 1
  /\ inst.ir.elements[Len(inst.ir.elements)] = Return

\* The recorded instruction is an unconditional RET or an unconditional JP:
\* its descriptor's emitter comes from that combinator and what it emitted
\* leaves the block.
Unconditional(inst, fn) ==
  /\ "ast" \in DOMAIN inst.entry
  /\ inst.entry.ast.fn = fn
  /\ LeavesBlock(inst)

BlockTerminator(inst) ==
  inst.prefix_bytes = 0
    /\ \/ Unconditional(inst, "RET")
       \/ Unconditional(inst, "JP")
       \/ Mnemonic(inst.entry) = "HALT"

\* The instruction lets the loop go on.
GoesOn(inst) == "ast" \in DOMAIN inst.entry /\ ~BlockTerminator(inst)

\* What holds of a block while and after it is decoded.
DecodedBlockShape ==
  mode = "decode" =>
    LET count == Len(instructions)
        last == instructions[count]
    IN /\ \A k \in 1..count :
            /\ instructions[k].length
                 = 1 + instructions[k].prefix_bytes
                     + OperandBytes(OperandKind(instructions[k].entry))
            /\ instructions[k].length >= 1
            /\ instructions[k].pc
                 = IF k = 1 THEN base
                   ELSE instructions[k - 1].pc + instructions[k - 1].length
            /\ k < count => GoesOn(instructions[k])
       /\ pc = IF count = 0 THEN base ELSE last.pc + last.length
       /\ terminated_by = "" /\ count >= 1 => GoesOn(last)
       /\ terminated_by = "ret" => count >= 1 /\ Unconditional(last, "RET")
       /\ terminated_by = "jp" => count >= 1 /\ Unconditional(last, "JP")
       /\ terminated_by = "halt"
            => count >= 1 /\ Mnemonic(last.entry) = "HALT"
       /\ terminated_by = "undecodable"
            => \/ count >= 1 /\ "ast" \notin DOMAIN last.entry
               \/ pc + 3 > base + Len(rom) - 1
               \/ RomAt(pc) \in {221, 253}

\* C23: for every finite ROM and every start_pc, decoding a block over the
\* main opcode table terminates: each decoded instruction advances pc by
\* 1 + prefix_bytes + operand_bytes, which is at least 1, and the loop
\* stops at the first instruction that is an unconditional RET, an
\* unconditional JP, HALT, or whose table entry has no `ast`, or when pc
\* reaches the end of the buffer; every instruction recorded before the
\* last one has an `ast`.
C23_DecodeTerminates ==
  /\ []DecodedBlockShape
  /\ [](mode = "decode" /\ ~Stopped
          => pc - base <= Len(rom) /\ Len(instructions) <= pc - base)
  /\ [][mode = "decode" /\ ~Stopped
          => \/ Stopped'
             \/ /\ Len(instructions') = Len(instructions) + 1
                /\ pc' >= pc + 1
                /\ Len(rom') - (pc' - base') < Len(rom) - (pc - base)]_vars

\* C23 witness: a block of four one-byte instructions stopped at the
\* fourth, the first without an `ast`, with pc at the end of the buffer.
C23_Witness ==
  /\ Stopped
  /\ Len(instructions) = 4
  /\ \A k \in 1..3 : "ast" \in DOMAIN instructions[k].entry
  /\ "ast" \notin DOMAIN instructions[4].entry
  /\ terminated_by = "undecodable"
  /\ pc = base + Len(rom)

====
